---------------------------- MODULE Spec2Model ----------------------------
(***************************************************************************)
(* A model of simple-reactive-dom: the keyed array diff, the disposal      *)
(* protocol, the microtask debouncer, the stores (writable / derived),     *)
(* the DOM operation queue with the attribute and child-text bindings,     *)
(* the conditional and the list snippets, and the rebind of a template.    *)
(*                                                                         *)
(* Each part of the library has its own variables, its own initial         *)
(* predicate and its own next-state relation; a specification SpecX runs   *)
(* one part and leaves the variables of the others at their initial value. *)
(***************************************************************************)
EXTENDS Integers, Sequences, FiniteSets, TLC

(***************************************************************************)
(* Bounds of the model.                                                    *)
(***************************************************************************)
\* longest array given to diffArray
MaxLen == 4
\* number of distinct item keys
NumKeys == 4
\* number of cleanup callbacks a run attaches with disposable()
MaxCleanups == 4
\* number of functions a run passes to debouncers
MaxFns == 5
\* number of distinct strings given to a writable store
MaxVal == 2
\* number of notifications the bindings get between two runs of the queue
MaxNotified == 3
\* number of text nodes: the template's, the caller's and those made by
\* createTextNode
MaxTexts == 5
\* number of microtasks queued in one synchronous turn
MaxMicrotasks == 2
\* number of nodes the content function of a branch makes
MaxMade == 2
\* number of items of the collection given to each()
MaxItems == 3
\* number of nodes buildItemContent makes for one item
MaxBuilt == 2
\* number of notifications each part of a two-part child text gets between
\* two runs of the queue
MaxSlotNotified == 2
\* number of objects made for one literals before the rebinds stop
MaxObjects == 9
\* number of evaluations of the render function, and of changes of watched
\* stores, in one synchronous turn
MaxRenders == 3
\* length of the subscriber queue beyond which the caller sets no store
MaxQueue == 2
\* number of DOM operations queued beyond which the collection is not set
MaxListOps == 1
\* number of evaluations of the render function of a node in watch mode
MaxEvaluations == 5

VARIABLES
    \* ---- utils/diffing.ts ----
    oldArray,       \* first argument of diffArray
    newArray,       \* second argument of diffArray
    diffResult,     \* what diffArray returned (ops, overkill), or that it threw
    patched,        \* applyOps(oldArray, diffResult.ops), once called
    \* ---- lifecycle/disposable.ts: the hidden fields of one object ----
    objDispose,     \* obj[DISPOSE]: whether it is there, and the function it holds
    objRoot,        \* obj[ROOT_DISPOSE]: <<>> for undefined, else <<cleanup>>
    objShallow,     \* obj[SHALLOW_DISPOSE]: <<>> for undefined, else the cleanups it calls, in order
    nextCleanup,    \* the next callback the program passes to disposable()
    attached,       \* the callbacks attached since the object was last not disposable
    prevCall,       \* the call before the last one on the object, and what it ran
    lastCall,       \* the last call on the object, and what it ran
    evaluations,    \* node(fn): the user cleanup of the literals each evaluation returned, 0 for none
    invoked,        \* node(fn): the cleanups of the literals run so far, in order
    \* ---- framework/binding/rebind.ts: one HtmlLiterals ----
    litValues,      \* literals.values
    litBindings,    \* literals.bindings: the Binding object of each position
    disposedLinks,  \* the DomLink objects that were disposed
    nextObject,     \* the identity of the next object made
    lastRebind,     \* the values and the bindings before the last rebind
    \* ---- stores/index.ts ----
    value,          \* the value of each store
    subscribers,    \* the subscribers of each store, in the order they were added
    stop,           \* whether the store's stop is set (it has been started)
    values,         \* derived: the values received from the dependencies
    pending,        \* derived: the dependencies that were invalidated and not yet delivered
    started,        \* derived: the started flag
    subscriberQueue, \* the module's queue of (subscriber, value) being notified
    delivered,      \* what the caller's subscribers received during the last call
    lastOp,         \* the last call made on a store by the caller
    unsubscribed,   \* the unsubscriber the caller called last: <<>> or <<u, s>>
    notifier,       \* per store: idle, started (start ran, its stop did not), or twice
    \* ---- utils/debounce.ts and the microtask queue ----
    microtasks,     \* the callbacks given to queueMicrotask and not yet run
    debouncers,     \* scheduled and debouncedFn of each debouncer
    passed,         \* the functions passed to each debouncer in the current turn
    ran,            \* the functions that have run since the current turn began
    drained,        \* whether the microtasks of the current turn have run
    nextFn,         \* the next function the caller passes to a debouncer
    exception,      \* whether the call being made has thrown
    \* ---- dom/operation.ts and framework/binding ----
    domOperations,  \* the module's queue of DOM operations
    updateDomMode,  \* BATCHED or EAGER
    sites,          \* the binding sites of the template
    created,        \* whether the node was built and bound
    disposed,       \* whether dispose(node) was called
    target,         \* the DomTargetWrapper of each part of the child text
    texts,          \* the textContent of each text node
    domSlot,        \* the child nodes of the bound element, in order
    domAttr,        \* the value of the class attribute in the DOM
    notified,       \* how many times each binding was notified since the queue last ran
    lastUpdate,     \* per part of the child text: what the last call of updateDomTarget did
    lateChanges,    \* whether a bound store was changed after dispose(node)
    lastRun,        \* the last run of the queue: who ran it, what was pending, what it did
    \* ---- snippets/condition.ts ----
    built,          \* the calls made on the builder so far: if, elseif, else
    contentKind,    \* what each branch was given as content
    branchState,    \* active and node of each branch
    made,           \* how many nodes each function or template description has made
    shown,          \* the node each branch last put in the store of the conditional
    deactivated,    \* the branches the last call deactivated, with what was disposed
    disposedNodes,  \* the nodes the conditional has disposed
    \* ---- snippets/loop.ts ----
    loopOptions,    \* useDiffing, the key function given to each, whether the items are objects
    eachCalled,     \* whether each() was called
    previousArray,  \* previousArray of each()
    itemsMade,      \* how many nodes buildItemContent has made for each key
    lastApply,      \* the last call of apply: the path taken, the sets and disposes it made
    listTarget,     \* the target of the binding of the list in a template: what it holds
    \* ---- template/tag.ts: createWatcher ----
    watcher,        \* the watcher of node(fn): its option, the set watched, its trigger store, initialCall
    renders,        \* the evaluations of the render function since the current turn began
    watchedChanges, \* the changes of watched stores since the current turn began
    \* ---- callbacks that unsubscribe, set or throw while notified ----
    behaviour,      \* what the callback of each caller does when it is called
    received,       \* the last value each callback received from each store
    lateCalls,      \* the callbacks called during the last call while no longer subscribed
    threw           \* whether the last call made by the caller threw

diffVars == <<oldArray, newArray, diffResult, patched>>
dispVars == <<objDispose, objRoot, objShallow, nextCleanup, attached, prevCall, lastCall,
             evaluations, invoked>>
rebindVars == <<litValues, litBindings, disposedLinks, nextObject, lastRebind>>
storeVars == <<value, subscribers, stop, values, pending, started, subscriberQueue,
               delivered, lastOp, unsubscribed, notifier>>
taskVars == <<microtasks, debouncers, passed, ran, drained, nextFn, exception>>
domVars == <<domOperations, updateDomMode, sites, created, disposed, target,
             texts, domSlot, domAttr, notified, lastUpdate, lateChanges, lastRun>>
condVars == <<built, contentKind, branchState, made, shown, deactivated,
              disposedNodes>>
loopVars == <<loopOptions, eachCalled, previousArray, itemsMade, lastApply,
              listTarget>>
watchVars == <<watcher, renders, watchedChanges>>
callbackVars == <<behaviour, received, lateCalls, threw>>
runVars == <<storeVars, taskVars, domVars, condVars, loopVars, watchVars, callbackVars>>

vars == <<diffVars, dispVars, rebindVars, runVars>>

\* what the steps of one part leave alone
notDiff == <<dispVars, rebindVars, runVars>>
notDisp == <<diffVars, rebindVars, runVars>>
notRebind == <<diffVars, dispVars, runVars>>
notRun == <<diffVars, dispVars, rebindVars>>

Min(a, b) == IF a < b THEN a ELSE b
Max(a, b) == IF a > b THEN a ELSE b

(***************************************************************************)
(*                       utils/diffing.ts                                  *)
(*                                                                         *)
(* Arrays are sequences; the code's indices are 0-based and kept 0-based   *)
(* in the ops, At() and Splice() translate.  An item is a pair             *)
(* <<key, origin>>: keyFn reads the key, the origin tells the old array's  *)
(* object from the new array's object with the same key.                   *)
(***************************************************************************)
\* JavaScript's undefined where an item is expected: it has a key no item has
Undefined == <<0, "undefined">>

Keys == 1..NumKeys

\* keyFn(item); a keyFn that accepts undefined gives it a key no item has
keyFn(item) == item[1]

\* arr[i] of JavaScript: undefined out of range
At(arr, i) == IF i >= 0 /\ i < Len(arr) THEN arr[i + 1] ELSE Undefined

\* Array.prototype.splice(start, deleteCount, ...ins), the array after the call
Splice(arr, start, deleteCount, ins) ==
    LET n == Len(arr)
        s == IF start < 0 THEN Max(n + start, 0) ELSE Min(start, n)
        d == Max(0, Min(deleteCount, n - s))
    IN  SubSeq(arr, 1, s) \o ins \o SubSeq(arr, s + d + 1, n)

ApplyOp(arr, op) ==
    CASE op.type = "DEL" -> Splice(arr, op.index, 1, <<>>)
      [] op.type = "ADD" -> Splice(arr, op.index, 0, <<op.item>>)
      [] op.type = "MOV" -> Splice(Splice(arr, op.index, 1, <<>>), op.indexDst, 0, <<op.item>>)

RECURSIVE applyOps(_, _)
applyOps(arr, ops) ==
    IF ops = <<>> THEN arr ELSE applyOps(ApplyOp(arr, Head(ops)), Tail(ops))

eq(itemA, itemB) == keyFn(itemA) = keyFn(itemB)

includes(arr, searchedItem) == \E i \in 1..Len(arr) : eq(arr[i], searchedItem)

\* findIndex: the first 0-based index, -1 when absent
indexOf(arr, searchedItem) ==
    IF includes(arr, searchedItem)
    THEN (CHOOSE i \in 1..Len(arr) :
            /\ eq(arr[i], searchedItem)
            /\ \A j \in 1..(i - 1) : ~eq(arr[j], searchedItem)) - 1
    ELSE -1

\* the 0-based indices of currArr that findMove would return at
MoveCandidates(currArr, targetArr) ==
    {i \in 0..(Len(currArr) - 1) :
        includes(targetArr, At(currArr, i)) /\ ~eq(At(currArr, i), At(targetArr, i))}

\* findMove: the first misplaced item; found = FALSE for the code's undefined
findMove(currArr, targetArr) ==
    LET c == MoveCandidates(currArr, targetArr)
    IN  IF c = {} THEN [found |-> FALSE, item |-> Undefined, indexSrc |-> -1, indexDst |-> -1]
        ELSE LET i == CHOOSE x \in c : \A y \in c : x <= y
             IN  [found |-> TRUE, item |-> At(currArr, i), indexSrc |-> i,
                  indexDst |-> indexOf(targetArr, At(currArr, i))]

\* step 1: deletions, scanned from the end of the old array
RECURSIVE Deletions(_, _, _)
Deletions(old, new, i) ==
    IF i < 0 THEN <<>>
    ELSE (IF ~includes(new, At(old, i))
          THEN <<[type |-> "DEL", item |-> At(old, i), index |-> i, indexDst |-> -1]>>
          ELSE <<>>) \o Deletions(old, new, i - 1)

\* step 3: additions, scanned from the start of the new array
RECURSIVE Additions(_, _, _)
Additions(old, new, i) ==
    IF i >= Len(new) THEN <<>>
    ELSE (IF ~includes(old, At(new, i))
          THEN <<[type |-> "ADD", item |-> At(new, i), index |-> i, indexDst |-> -1]>>
          ELSE <<>>) \o Additions(old, new, i + 1)

\* the one or two MOV ops of an iteration of the move loop
BufferMoves(move, old, new) ==
    <<[type |-> "MOV", item |-> move.item, index |-> move.indexSrc, indexDst |-> move.indexDst]>>
    \o (IF eq(At(new, move.indexSrc), At(old, move.indexDst))
        THEN <<[type |-> "MOV", item |-> At(new, move.indexSrc),
                index |-> move.indexDst - 1, indexDst |-> move.indexSrc]>>
        ELSE <<>>)

\* the ops of a result, in the order diffArray concatenates them
ResultOpsSwapped(deletions, additions, moves) == additions \o deletions \o moves
ResultOps(deletions, additions, moves) == deletions \o additions \o moves

\* deletions.length + additions.length + moves.length >= newArray.length
tooManyOpsLate(deletions, additions, moves, new) ==
    Len(deletions) + Len(additions) + Len(moves) >= Len(new) + 2
tooManyOps(deletions, additions, moves, new) ==
    Len(deletions) + Len(additions) + Len(moves) >= Len(new)

\* step 4: the move loop.  keyThrows: keyFn throws on undefined, which the
\* swap test reaches when indexDst is past the end of the old array.
RECURSIVE MoveLoop(_, _, _, _, _, _, _, _)
MoveLoop(bufferArr, old, new, deletions, additions, moves, iterations, keyThrows) ==
    LET move == findMove(bufferArr, new)
    IN  IF ~move.found
        THEN [ops |-> ResultOps(deletions, additions, moves), overkill |-> FALSE,
              threw |-> FALSE, iterations |-> iterations]
        ELSE IF keyThrows /\ At(old, move.indexDst) = Undefined
        THEN [ops |-> <<>>, overkill |-> FALSE, threw |-> TRUE, iterations |-> iterations + 1]
        ELSE LET bufferMoves == BufferMoves(move, old, new)
                 moves2      == moves \o bufferMoves
             IN  IF tooManyOps(deletions, additions, moves2, new)
                 THEN [ops |-> ResultOps(deletions, additions, moves2), overkill |-> TRUE,
                       threw |-> FALSE, iterations |-> iterations + 1]
                 ELSE MoveLoop(applyOps(bufferArr, bufferMoves), old, new,
                               deletions, additions, moves2, iterations + 1, keyThrows)

diffArray(old, new, keyThrows) ==
    LET deletions == Deletions(old, new, Len(old) - 1)
        additions == Additions(old, new, 0)
    IN  IF Len(deletions) >= Len(old)
        THEN [ops |-> deletions, overkill |-> TRUE, threw |-> FALSE, iterations |-> 0]
        ELSE MoveLoop(applyOps(applyOps(old, deletions), additions), old, new,
                      deletions, additions, <<>>, 0, keyThrows)

\* the sequences of at most MaxLen items of one origin, with distinct keys
KeySeqs(n) ==
    UNION {{s \in [1..m -> Keys] : \A i, j \in 1..m : i # j => s[i] # s[j]} : m \in 0..n}

Tagged(ks, origin) == [i \in 1..Len(ks) |-> <<ks[i], origin>>]

KeysOf(arr) == [i \in 1..Len(arr) |-> keyFn(arr[i])]

\* diffArray has not been called
NotCalled == [ops |-> <<>>, overkill |-> FALSE, threw |-> FALSE, iterations |-> 0, returned |-> FALSE]

DiffInit ==
    /\ \E ks \in KeySeqs(MaxLen) : oldArray = Tagged(ks, "old")
    /\ \E ks \in KeySeqs(MaxLen) : newArray = Tagged(ks, "new")
    /\ diffResult = NotCalled
    /\ patched = [done |-> FALSE, arr |-> <<>>]

\* a call diffArray(oldArray, newArray, keyFn), with a keyFn that throws on
\* undefined (item.toFixed(), item.id) or one that does not (String(item))
DiffCall ==
    /\ diffResult = NotCalled
    /\ \E keyThrows \in BOOLEAN :
          LET r == diffArray(oldArray, newArray, keyThrows)
          IN  diffResult' = [ops |-> r.ops, overkill |-> r.overkill, threw |-> r.threw,
                             iterations |-> r.iterations, returned |-> ~r.threw]
    /\ UNCHANGED <<oldArray, newArray, patched, notDiff>>

\* a call applyOps(oldArray, result.ops)
ApplyCall ==
    /\ diffResult.returned
    /\ ~patched.done
    /\ patched' = [done |-> TRUE, arr |-> applyOps(oldArray, diffResult.ops)]
    /\ UNCHANGED <<oldArray, newArray, diffResult, notDiff>>

DiffNext == DiffCall \/ ApplyCall

DiffIdle ==
    /\ oldArray = <<>>
    /\ newArray = <<>>
    /\ diffResult = NotCalled
    /\ patched = [done |-> FALSE, arr |-> <<>>]

(***************************************************************************)
(*                       lifecycle/disposable.ts                           *)
(*                                                                         *)
(* One object and the cleanups attached to it.  A cleanup is a callback of *)
(* the caller, named by a number; a function built by disposable() is the  *)
(* sequence of cleanups it calls.  obj[DISPOSE] is either the function     *)
(* given to the first disposable() (direct) or the composite closure,      *)
(* which reads obj[ROOT_DISPOSE] and obj[SHALLOW_DISPOSE] when it runs.    *)
(***************************************************************************)
NoCall == [op |-> "none", wasDisposable |-> FALSE, ran |-> <<>>]

DispInit ==
    /\ objDispose = [present |-> FALSE, composite |-> FALSE, direct |-> <<>>]
    /\ objRoot = <<>>
    /\ objShallow = <<>>
    /\ nextCleanup = 1
    /\ attached = <<>>
    /\ prevCall = NoCall
    /\ lastCall = NoCall
    /\ evaluations = <<>>
    /\ invoked = <<>>

isDisposable == objDispose.present

\* what calling obj[DISPOSE]() runs
DisposeRuns ==
    IF objDispose.composite THEN objRoot \o objShallow ELSE objDispose.direct

\* disposable(obj, disposeFn) with a new callback
Disposable ==
    /\ nextCleanup <= MaxCleanups
    /\ nextCleanup' = nextCleanup + 1
    /\ attached' = IF isDisposable THEN Append(attached, nextCleanup) ELSE <<nextCleanup>>
    /\ IF isDisposable
       THEN /\ objRoot' = IF objRoot = <<>> THEN DisposeRuns ELSE objRoot
            /\ objShallow' = Append(objShallow, nextCleanup)
            /\ objDispose' = [present |-> TRUE, composite |-> TRUE, direct |-> <<>>]
       ELSE /\ objDispose' = [present |-> TRUE, composite |-> FALSE, direct |-> <<nextCleanup>>]
            /\ UNCHANGED <<objRoot, objShallow>>
    /\ prevCall' = lastCall
    /\ lastCall' = [op |-> "disposable", wasDisposable |-> isDisposable, ran |-> <<>>]
    /\ UNCHANGED <<evaluations, invoked, notDisp>>

\* the marker after dispose(obj) has called obj[DISPOSE]
KeepMarker(d) == d
DeleteMarker(d) == [d EXCEPT !.present = FALSE]

\* dispose(obj)
Dispose ==
    /\ objDispose' = IF isDisposable THEN DeleteMarker(objDispose) ELSE objDispose
    /\ prevCall' = lastCall
    /\ lastCall' = [op |-> "dispose", wasDisposable |-> isDisposable,
                    ran |-> IF isDisposable THEN DisposeRuns ELSE <<>>]
    /\ UNCHANGED <<objRoot, objShallow, nextCleanup, attached, evaluations, invoked, notDisp>>

\* shallowDispose(obj)
ShallowDispose ==
    /\ prevCall' = lastCall
    /\ lastCall' = [op |-> "shallowDispose", wasDisposable |-> isDisposable,
                    ran |-> IF isDisposable THEN objShallow ELSE <<>>]
    /\ UNCHANGED <<objDispose, objRoot, objShallow, nextCleanup, attached, evaluations, invoked,
                   notDisp>>

DispNext == Disposable \/ Dispose \/ ShallowDispose

(***************************************************************************)
(*            template/tag.ts: node(fn) and its literals                   *)
(*                                                                         *)
(* The object is the HtmlLiterals the first evaluation of the render       *)
(* function returned.  html`...` makes it disposable with disposeLiterals  *)
(* (the base cleanup); the render function may chain a cleanup of its own  *)
(* with disposable(literals, userCleanup) before it returns it.            *)
(***************************************************************************)
\* the hidden fields of the literals an evaluation returns: htmlLit, then
\* disposable(literals, user) when the render function attaches a cleanup
LiteralsOf(base, user) ==
    IF user = 0
    THEN [dispose |-> [present |-> TRUE, composite |-> FALSE, direct |-> <<base>>],
          root |-> <<>>, shallow |-> <<>>]
    ELSE [dispose |-> [present |-> TRUE, composite |-> TRUE, direct |-> <<>>],
          root |-> <<base>>, shallow |-> <<user>>]

\* the cleanup the render function attaches in an evaluation
UserCleanup(carries) == IF carries THEN nextCleanup + 1 ELSE 0

\* node(fn): onWatcherInit, literals = fn(watch); el = createNode(literals)
WatchNode(carries) ==
    /\ evaluations = <<>>
    /\ ~isDisposable
    /\ nextCleanup = 1
    /\ LET returned == LiteralsOf(nextCleanup, UserCleanup(carries))
       IN  /\ objDispose' = returned.dispose
           /\ objRoot' = returned.root
           /\ objShallow' = returned.shallow
           /\ attached' = returned.root \o returned.dispose.direct \o returned.shallow
    /\ nextCleanup' = nextCleanup + 2
    /\ evaluations' = <<UserCleanup(carries)>>
    /\ prevCall' = lastCall
    /\ lastCall' = [op |-> "node", wasDisposable |-> FALSE, ran |-> <<>>]
    /\ UNCHANGED <<invoked, notDisp>>

\* the update of node(fn): newLiterals = fn(watch); shallowDispose(literals);
\* literals[SHALLOW_DISPOSE] = newLiterals[SHALLOW_DISPOSE]
Reevaluate(carries) ==
    /\ evaluations # <<>>
    /\ Len(evaluations) < MaxEvaluations
    /\ lastCall.op # "disposeNode"
    /\ LET newLiterals == LiteralsOf(nextCleanup, UserCleanup(carries))
           shallowRan == IF isDisposable THEN objShallow ELSE <<>>
       IN  /\ invoked' = invoked \o shallowRan
           /\ objShallow' = newLiterals.shallow
           /\ lastCall' = [op |-> "update", wasDisposable |-> isDisposable, ran |-> shallowRan]
    /\ nextCleanup' = nextCleanup + 2
    /\ evaluations' = Append(evaluations, UserCleanup(carries))
    /\ prevCall' = lastCall
    /\ UNCHANGED <<objDispose, objRoot, attached, notDisp>>

\* dispose(el) of the node of node(fn): its root cleanup calls
\* dispose(literals)
DisposeWatched ==
    /\ evaluations # <<>>
    /\ lastCall.op # "disposeNode"
    /\ objDispose' = IF isDisposable THEN DeleteMarker(objDispose) ELSE objDispose
    /\ invoked' = invoked \o (IF isDisposable THEN DisposeRuns ELSE <<>>)
    /\ prevCall' = lastCall
    /\ lastCall' = [op |-> "disposeNode", wasDisposable |-> isDisposable,
                    ran |-> IF isDisposable THEN DisposeRuns ELSE <<>>]
    /\ UNCHANGED <<objRoot, objShallow, nextCleanup, attached, evaluations, notDisp>>

WatchedNext ==
    \/ \E carries \in BOOLEAN : WatchNode(carries)
    \/ \E carries \in BOOLEAN : Reevaluate(carries)
    \/ DisposeWatched

(***************************************************************************)
(*                 The run-time state as one record                        *)
(*                                                                         *)
(* The calls of the library nest (a set runs subscribers, which run sync,  *)
(* which calls set ...), so each function is an operator from the state    *)
(* to the state after the call returned.  World is the state now and       *)
(* Becomes(W) says the next state is W.                                    *)
(***************************************************************************)
World ==
    [value |-> value,
     subscribers |-> subscribers,
     stop |-> stop,
     values |-> values,
     pending |-> pending,
     started |-> started,
     subscriberQueue |-> subscriberQueue,
     delivered |-> delivered,
     lastOp |-> lastOp,
     unsubscribed |-> unsubscribed,
     notifier |-> notifier,
     microtasks |-> microtasks,
     debouncers |-> debouncers,
     passed |-> passed,
     ran |-> ran,
     drained |-> drained,
     nextFn |-> nextFn,
     exception |-> exception,
     domOperations |-> domOperations,
     updateDomMode |-> updateDomMode,
     sites |-> sites,
     created |-> created,
     disposed |-> disposed,
     target |-> target,
     texts |-> texts,
     domSlot |-> domSlot,
     domAttr |-> domAttr,
     notified |-> notified,
     lastUpdate |-> lastUpdate,
     lateChanges |-> lateChanges,
     lastRun |-> lastRun,
     built |-> built,
     contentKind |-> contentKind,
     branchState |-> branchState,
     made |-> made,
     shown |-> shown,
     deactivated |-> deactivated,
     disposedNodes |-> disposedNodes,
     loopOptions |-> loopOptions,
     eachCalled |-> eachCalled,
     previousArray |-> previousArray,
     itemsMade |-> itemsMade,
     lastApply |-> lastApply,
     listTarget |-> listTarget,
     watcher |-> watcher,
     renders |-> renders,
     watchedChanges |-> watchedChanges,
     behaviour |-> behaviour,
     received |-> received,
     lateCalls |-> lateCalls,
     threw |-> threw]

Becomes(W) ==
    /\ value' = W.value
    /\ subscribers' = W.subscribers
    /\ stop' = W.stop
    /\ values' = W.values
    /\ pending' = W.pending
    /\ started' = W.started
    /\ subscriberQueue' = W.subscriberQueue
    /\ delivered' = W.delivered
    /\ lastOp' = W.lastOp
    /\ unsubscribed' = W.unsubscribed
    /\ notifier' = W.notifier
    /\ microtasks' = W.microtasks
    /\ debouncers' = W.debouncers
    /\ passed' = W.passed
    /\ ran' = W.ran
    /\ drained' = W.drained
    /\ nextFn' = W.nextFn
    /\ exception' = W.exception
    /\ domOperations' = W.domOperations
    /\ updateDomMode' = W.updateDomMode
    /\ sites' = W.sites
    /\ created' = W.created
    /\ disposed' = W.disposed
    /\ target' = W.target
    /\ texts' = W.texts
    /\ domSlot' = W.domSlot
    /\ domAttr' = W.domAttr
    /\ notified' = W.notified
    /\ lastUpdate' = W.lastUpdate
    /\ lateChanges' = W.lateChanges
    /\ lastRun' = W.lastRun
    /\ built' = W.built
    /\ contentKind' = W.contentKind
    /\ branchState' = W.branchState
    /\ made' = W.made
    /\ shown' = W.shown
    /\ deactivated' = W.deactivated
    /\ disposedNodes' = W.disposedNodes
    /\ loopOptions' = W.loopOptions
    /\ eachCalled' = W.eachCalled
    /\ previousArray' = W.previousArray
    /\ itemsMade' = W.itemsMade
    /\ lastApply' = W.lastApply
    /\ listTarget' = W.listTarget
    /\ watcher' = W.watcher
    /\ renders' = W.renders
    /\ watchedChanges' = W.watchedChanges
    /\ behaviour' = W.behaviour
    /\ received' = W.received
    /\ lateCalls' = W.lateCalls
    /\ threw' = W.threw

\* a string is the sequence of its characters
Str(chars) == [kind |-> "string", v |-> chars]
UndefinedValue == [kind |-> "undefined", v |-> <<>>]
\* the kinds of values for which typeof is 'object'
ObjectKinds == {"object", "element", "text", "array", "literal"}

Last(seq) == seq[Len(seq)]
\* how many times x is in the sequence
Times(seq, x) == Cardinality({i \in 1..Len(seq) : seq[i] = x})
Without(seq, x) == SelectSeq(seq, LAMBDA y : y # x)
Has(seq, x) == \E i \in 1..Len(seq) : seq[i] = x

(***************************************************************************)
(*                 dom/operation.ts and the microtasks                     *)
(*                                                                         *)
(* A function handed to a debouncer, to queueDomOperation or to            *)
(* queueMicrotask is a record: what it does when called (kind) and the     *)
(* values its closure holds.  Nodes are numbers: NoNode for undefined,     *)
(* TemplateText for the text node "#{text} #{text2}" of the template,      *)
(* CallerText for a Text node of the caller, the text nodes made by        *)
(* createTextNode from 3 on, the caller's elements above ElementBase.      *)
(* from and to are the nodes replaceBy was given, before tells that the    *)
(* replacement goes before the first of them.  late is set when the        *)
(* function was made after the node was disposed.                          *)
(***************************************************************************)
NoNode == 0
TemplateText == 1
CallerText == 2
ElementBase == 100

Fn(kind) ==
    [kind |-> kind, id |-> 0, d |-> "", site |-> "", val |-> <<>>,
     from |-> <<>>, to |-> <<>>, before |-> FALSE, late |-> FALSE]
NoFn == Fn("undefined")
UserFn(id) == [Fn("user") EXCEPT !.id = id]
\* a function of the caller that passes another function to the debouncer d
\* while it runs: () => debouncer(inner)
NestingFn(id, d) == [Fn("nesting") EXCEPT !.id = id, !.d = d]
InnerOf(id) == id + MaxFns

\* the debouncers made by the caller with createDebouncer()
UserDebouncers == {"d1", "d2"}
\* the attributes of the template; bindAttrValue makes a debouncer for each
AttrSites == {"class", "title"}
\* the debouncer createWatcher makes with createDebouncer()
WatchDebouncers == {"watch"}
Debouncers == UserDebouncers \cup AttrSites \cup WatchDebouncers

\* the binding parts of the child text of the template
Slots == {"slot", "slot2"}
NoUpdate == [same |-> FALSE, queued |-> 0, writes |-> 0]

NoRun ==
    [by |-> "none", pendingAtCall |-> <<>>, executed |-> <<>>, writes |-> <<>>,
     threw |-> FALSE, notified |-> [class |-> 0, title |-> 0, slot |-> 0, slot2 |-> 0],
     lateChanges |-> FALSE]

\* a run of the queue begins: by flush() or by the microtasks of the turn
StartRun(W, by) ==
    [W EXCEPT !.lastRun = [NoRun EXCEPT !.by = by, !.pendingAtCall = W.domOperations,
                                        !.notified = W.notified,
                                        !.lateChanges = W.lateChanges],
              !.notified = NoRun.notified,
              !.lastUpdate = [slot \in Slots |-> NoUpdate]]

\* a write to the DOM by the binding of a site
Written(W, site, val, late) ==
    [W EXCEPT !.lastRun.writes =
        Append(@, [site |-> site, val |-> val, stale |-> W.disposed, late |-> late])]

throw(W) == [W EXCEPT !.exception = TRUE, !.lastRun.threw = TRUE]

queueMicrotask(W, callback) == [W EXCEPT !.microtasks = Append(@, callback)]

\* queueDomOperation(fn)
queueDomOperation(W, f) ==
    LET W1 == IF W.domOperations = <<>>
              THEN queueMicrotask(W, Fn("runDomOperations"))
              ELSE W
    IN  [W1 EXCEPT !.domOperations = Append(@, f)]

\* debouncedFn = fn
KeepFirst(debouncedFn, f) == IF debouncedFn = NoFn THEN f ELSE debouncedFn
Remember(debouncedFn, f) == f

\* the function returned by createDebouncer(scheduler): debounce(fn)
debounce(W, d, f) ==
    LET W1 == [W EXCEPT !.debouncers[d].debouncedFn = Remember(@, f)]
        callback == [Fn("debounced") EXCEPT !.d = d]
    IN  IF W1.debouncers[d].scheduled
        THEN W1
        ELSE LET W2 == [W1 EXCEPT !.debouncers[d].scheduled = TRUE]
             IN  IF d \in AttrSites
                 THEN queueDomOperation(W2, callback)
                 ELSE queueMicrotask(W2, callback)

\* the operations that were pending: domOperations.splice(0)
spliceFirst(ops) == SubSeq(ops, 1, Min(1, Len(ops)))
spliceAll(ops) == ops

\* the children of the bound element after anchor.after(...nodes), or
\* anchor.before(...nodes): nothing when the anchor has no parent, and a
\* node that is already a child moves
insert(children, toBeReplaced, before, nodes) ==
    LET anchor == IF before THEN Head(toBeReplaced) ELSE Last(toBeReplaced)
        at == CHOOSE i \in 1..Len(children) : children[i] = anchor
        cut == IF before THEN at - 1 ELSE at
        others(seq) == SelectSeq(seq, LAMBDA n : ~Has(nodes, n))
    IN  IF ~Has(children, anchor)
        THEN children
        ELSE others(SubSeq(children, 1, cut)) \o nodes
                \o others(SubSeq(children, cut + 1, Len(children)))

\* toBeReplaced.forEach((node) => node.remove())
remove(children, toBeReplaced) == SelectSeq(children, LAMBDA n : ~Has(toBeReplaced, n))

\* The functions of the stores call one another, and the subscribers call
\* them back: every such call is call(W, name, store, subscriber, argument),
\* defined after them.
RECURSIVE call(_, _, _, _, _)
RECURSIVE callFn(_, _)
RECURSIVE runOperations(_, _, _)

\* the callback createDebouncer gives to its scheduler
debounced(W, d) ==
    LET W1 == callFn(W, W.debouncers[d].debouncedFn)
    IN  IF W1.exception
        THEN W1
        ELSE [W1 EXCEPT !.debouncers[d] = [scheduled |-> FALSE, debouncedFn |-> NoFn]]

\* runDomOperations()
runDomOperations(W) ==
    runOperations([W EXCEPT !.domOperations = <<>>], spliceAll(W.domOperations), 1)

runOperations(W, pendingOperations, i) ==
    IF i > Len(pendingOperations) \/ W.exception
    THEN W
    ELSE LET W1 == callFn(W, pendingOperations[i])
         IN  runOperations(IF W1.exception
                           THEN W1
                           ELSE [W1 EXCEPT !.lastRun.executed = Append(@, pendingOperations[i])],
                           pendingOperations, i + 1)

\* the body of a function given to domOp: one write to the DOM
domWrite(W, f) ==
    CASE f.kind = "setAttribute" ->
           Written([W EXCEPT !.domAttr[f.site] = f.val], f.site, f.val, f.late)
      [] f.kind = "textContent" ->
           \* target.text!.textContent = replacement, target read when the function runs
           IF W.target[f.site].text = NoNode
           THEN throw(W)
           ELSE Written([W EXCEPT !.texts[W.target[f.site].text] = f.val],
                        f.site, f.val, f.late)
      [] f.kind = "replaceBy" ->
           Written([W EXCEPT !.domSlot = remove(insert(@, f.from, f.before, f.to), f.from)],
                   f.site, f.to, f.late)
      \* the functions of snippets/loop.ts: node.remove(), lastNode.after(el),
      \* node.before(el)
      [] f.kind = "remove" -> [W EXCEPT !.domSlot = remove(@, f.from)]
      [] f.kind = "after" -> [W EXCEPT !.domSlot = insert(@, f.from, FALSE, f.to)]
      [] f.kind = "before" -> [W EXCEPT !.domSlot = insert(@, f.from, TRUE, f.to)]
      [] OTHER -> W

\* calling a function: fn()
callFn(W, f) ==
    CASE f.kind = "user" -> [W EXCEPT !.ran = Append(@, f.id)]
      [] f.kind = "debounced" -> debounced(W, f.d)
      [] f.kind = "runDomOperations" -> runDomOperations(W)
      [] f.kind = "rerender" -> call(W, "rerender", "", f, 0)
      [] f.kind = "nesting" ->
           debounce([W EXCEPT !.ran = Append(@, f.id),
                              !.passed[f.d] = Append(@, InnerOf(f.id))],
                    f.d, UserFn(InnerOf(f.id)))
      [] OTHER -> domWrite(W, f)

\* the microtask checkpoint at the end of a synchronous turn; an exception a
\* microtask lets out is reported and the next microtask runs
RECURSIVE runMicrotasks(_)
runMicrotasks(W) ==
    IF W.microtasks = <<>>
    THEN W
    ELSE LET W1 == callFn([W EXCEPT !.microtasks = Tail(@)], Head(W.microtasks))
         IN  runMicrotasks([W1 EXCEPT !.exception = FALSE])

\* flush()
flush(W) == IF Len(W.domOperations) > 0 THEN runDomOperations(W) ELSE W

\* debouncer ? debouncer(fn) : queueDomOperation(fn)
domOpBatched(W, f, d) == IF d # "" THEN debounce(W, d, f) ELSE queueDomOperation(W, f)

\* domOp(fn, updateDomMode, debouncer), d = "" when no debouncer is given
domOp(W, f, d) ==
    CASE W.updateDomMode = "BATCHED" ->
           IF d # "" THEN debounce(W, d, f) ELSE queueDomOperation(W, f)
      [] W.updateDomMode = "EAGER" -> domWrite(W, f)

\* replaceBy(toBeReplaced, replacement); a single node is the list of one
\* node, and only a list replaced by a single node puts it before the list
replaceBy(W, toBeReplaced, replacement, site) ==
    [Fn("replaceBy") EXCEPT !.from = toBeReplaced.nodes, !.to = replacement.nodes,
                            !.before = toBeReplaced.array /\ ~replacement.array,
                            !.site = site, !.late = W.disposed]

\* the first call of a new synchronous turn forgets the record of the last one
BeginTurn(W) ==
    IF W.drained
    THEN [W EXCEPT !.drained = FALSE, !.ran = <<>>, !.renders = <<>>,
                   !.watchedChanges = 0,
                   !.passed = [d \in DOMAIN W.passed |-> <<>>]]
    ELSE W

TaskInit ==
    /\ microtasks = <<>>
    /\ debouncers = [d \in Debouncers |-> [scheduled |-> FALSE, debouncedFn |-> NoFn]]
    /\ passed = [d \in UserDebouncers |-> <<>>]
    /\ ran = <<>>
    /\ drained = FALSE
    /\ nextFn = 1
    /\ exception = FALSE

\* debouncer(fn) with a new function
Debounce(d) ==
    /\ nextFn <= MaxFns
    /\ LET W == debounce(BeginTurn(World), d, UserFn(nextFn))
       IN  Becomes([W EXCEPT !.passed[d] = Append(@, nextFn), !.nextFn = @ + 1])
    /\ UNCHANGED notRun

\* await tick(): the turn ends and the queued microtasks run
Tick ==
    /\ ~drained
    /\ Becomes([runMicrotasks(StartRun(World, "microtask")) EXCEPT !.drained = TRUE])
    /\ UNCHANGED notRun

DebounceNext == (\E d \in UserDebouncers : Debounce(d)) \/ Tick

\* debouncer(fn) with a new function that calls debouncer(inner) when it runs
DebounceNesting(d) ==
    /\ nextFn <= MaxFns
    /\ LET W == debounce(BeginTurn(World), d, NestingFn(nextFn, d))
       IN  Becomes([W EXCEPT !.passed[d] = Append(@, nextFn), !.nextFn = @ + 1])
    /\ UNCHANGED notRun

NestingNext ==
    \/ \E d \in UserDebouncers : Debounce(d)
    \/ \E d \in UserDebouncers : DebounceNesting(d)
    \/ Tick

(***************************************************************************)
(*            framework/binding: the bindings of one template              *)
(*                                                                         *)
(*  <div class="x #{attrA} #{attrB}" title="#{text}">#{text} #{text2}</div> *)
(*                                                                         *)
(* sites tells which of the binding sites the template has: the attribute  *)
(* class, the attribute title and the two parts of the child text ("slot"  *)
(* and "slot2"; the second comes with the literal part before it).  The    *)
(* values of the store text are strings, elements, a Text node and arrays  *)
(* of elements of the caller; text2 holds strings.                         *)
(***************************************************************************)
El(n) == [kind |-> "element", v |-> <<ElementBase + n>>]

\* injectValuesInTemplate for an attribute: the text of the template with the
\* serialized values in the place of the keys
injectValuesInTemplate(site, v) ==
    CASE site = "class" -> <<120>> \o v.v
      [] site = "title" -> IF v.kind = "element" THEN <<91>> ELSE v.v

\* const debouncer = createDomDebouncer() in bindAttrValue
noDebouncer(site) == ""
attrDebouncer(site) == site

\* the subscriber of bindAttrValue: (value) => { ... domOp(..., debouncer) }
bindAttrValue(W, site, v) ==
    LET f == [Fn("setAttribute") EXCEPT !.val = injectValuesInTemplate(site, v),
                                         !.site = site, !.late = W.disposed]
    IN  domOp([W EXCEPT !.notified[site] = @ + 1], f, attrDebouncer(site))

\* document.createTextNode(data)
createTextNode(W, data) == [W EXCEPT !.texts = Append(@, data)]

\* serializeFn(value, key) with the default serializer
serializeFn(v) == IF v.kind \in ObjectKinds THEN <<91, 111, 93>> ELSE v.v

\* a node, or an array of nodes, as replaceBy takes them
Single(node) == [array |-> FALSE, nodes |-> <<node>>]
Many(array) == [array |-> TRUE, nodes |-> array]

NoTarget == [el |-> NoNode, text |-> NoNode, array |-> <<>>]
\* the value whose reference is the occupant of the target
Occupant(t) ==
    CASE t.el # NoNode -> [kind |-> "element", v |-> <<t.el>>]
      [] t.text # NoNode -> [kind |-> "text", v |-> <<t.text>>]
      [] t.array # <<>> -> [kind |-> "array", v |-> t.array]
      [] OTHER -> UndefinedValue

elementToElement(W, slot, replacement) ==
    IF replacement # W.target[slot].el
    THEN [domOp(W, replaceBy(W, Single(W.target[slot].el), Single(replacement), slot), "")
            EXCEPT !.target[slot].el = replacement]
    ELSE W

\* elementToText and arrayToText with a Text node
toTextNode(W, slot, textNode) ==
    [domOp(W, replaceBy(W, IF W.target[slot].el # NoNode
                           THEN Single(W.target[slot].el)
                           ELSE Many(W.target[slot].array),
                        Single(textNode), slot), "")
        EXCEPT !.target[slot] = [NoTarget EXCEPT !.text = textNode]]

\* elementToText with a string: the text node is made first
elementToText(W, slot, replacement) ==
    LET ofNode(W1) == toTextNode(W1, slot, Len(W1.texts))
    IN  ofNode(createTextNode(W, replacement))

textToElement(W, slot, replacement) ==
    [domOp(W, replaceBy(W, Single(W.target[slot].text), Single(replacement), slot), "")
        EXCEPT !.target[slot] = [NoTarget EXCEPT !.el = replacement]]

textToArray(W, slot, replacement) ==
    [domOp(W, replaceBy(W, Single(W.target[slot].text), Many(replacement), slot), "")
        EXCEPT !.target[slot] = [NoTarget EXCEPT !.array = replacement]]

\* textToText with a Text node
textToTextNode(W, slot, replacement) ==
    IF replacement # W.target[slot].text
    THEN [domOp(W, replaceBy(W, Single(W.target[slot].text), Single(replacement), slot), "")
            EXCEPT !.target[slot].text = replacement]
    ELSE W

\* textToText with a string
textToText(W, slot, replacement) ==
    domOp(W, [Fn("textContent") EXCEPT !.val = replacement, !.site = slot,
                                       !.late = W.disposed], "")

arrayToArray(W, slot, replacement) ==
    [domOp(W, replaceBy(W, Many(W.target[slot].array), Many(replacement), slot), "")
        EXCEPT !.target[slot].array = replacement]

\* the branches of updateDomTarget; the values are strings, elements, Text
\* nodes and non-empty arrays of elements (mapArray returns such an array as
\* it is)
updateTarget(W, slot, v) ==
    CASE W.target[slot].el # NoNode ->
           CASE v.kind = "element" -> elementToElement(W, slot, v.v[1])
             [] v.kind = "text" -> toTextNode(W, slot, v.v[1])
             [] OTHER -> elementToText(W, slot, serializeFn(v))
      [] W.target[slot].text # NoNode ->
           CASE v.kind = "element" -> textToElement(W, slot, v.v[1])
             [] v.kind = "text" -> textToTextNode(W, slot, v.v[1])
             [] v.kind = "array" -> textToArray(W, slot, v.v)
             [] OTHER -> textToText(W, slot, serializeFn(v))
      [] W.target[slot].array # <<>> ->
           CASE v.kind = "array" -> arrayToArray(W, slot, v.v)
             [] v.kind = "text" -> toTextNode(W, slot, v.v[1])
             [] OTHER -> W
      [] OTHER ->
           \* the first value: the target is made, the DOM is not touched
           CASE v.kind = "element" -> [W EXCEPT !.target[slot].el = v.v[1]]
             [] v.kind = "text" -> [W EXCEPT !.target[slot].text = v.v[1]]
             [] v.kind = "array" -> [W EXCEPT !.target[slot].array = v.v]
             [] OTHER -> LET ofNode(W1) == [W1 EXCEPT !.target[slot].text = Len(W1.texts)]
                         IN  ofNode(createTextNode(W, serializeFn(v)))

\* what a call of updateDomTarget did: whether the value was the reference
\* of the occupant, and how many DOM operations it queued and ran
Updated(W0, slot, same, W) ==
    [W EXCEPT !.lastUpdate[slot] =
        [same |-> same,
         queued |-> Len(W.domOperations) - Len(W0.domOperations),
         writes |-> Len(W.lastRun.writes) - Len(W0.lastRun.writes)]]

\* updateDomTarget(target, value, ...), the subscriber of bindNodeValue
updateDomTarget(W0, slot, v) ==
    Updated(W0, slot, v = Occupant(W0.target[slot]),
            updateTarget([W0 EXCEPT !.notified[slot] = @ + 1], slot, v))
(***************************************************************************)
(*                          stores/index.ts                                *)
(*                                                                         *)
(* The stores of the model: count is writable; a and b are derived from    *)
(* count; combined, aThenCount and countThenA are derived from two stores. *)
(* attrA, attrB, text and text2 are the writable stores of the template;   *)
(* domLinkStore is the store getDomLinkStore derives for the attribute.    *)
(* c1, c2, c3 are the writable conditions given to cond(), nodeStore its   *)
(* store; e1, e2 are the _condition stores of the two elseif branches and  *)
(* p1, p2 the onePrevious stores made after them; content is a writable    *)
(* store given to cond() as the content of a branch.  collection is the    *)
(* writable store given to each() and nodesStore the store of loop().      *)
(* tA and tB are the triggerUpdate stores createWatcher derives from the   *)
(* stores watched: c1 and attrA, or c1 and attrB.                          *)
(***************************************************************************)
Stores ==
    {"count", "a", "b", "combined", "aThenCount", "countThenA",
     "attrA", "attrB", "domLinkStore", "text", "text2",
     "c1", "c2", "c3", "e1", "p1", "e2", "p2", "nodeStore", "content",
     "collection", "nodesStore", "tA", "tB"}

\* the stores a derived store is made from, in the order given to derived()
storesArray(s) ==
    CASE s = "a" -> <<"count">>
      [] s = "b" -> <<"count">>
      [] s = "combined" -> <<"a", "b">>
      [] s = "aThenCount" -> <<"a", "count">>
      [] s = "countThenA" -> <<"count", "a">>
      [] s = "domLinkStore" -> <<"attrA", "attrB">>
      [] s \in {"e1", "p1"} -> <<"c1", "c2">>
      [] s \in {"e2", "p2"} -> <<"p1", "c3">>
      [] s = "tA" -> <<"c1", "attrA">>
      [] s = "tB" -> <<"c1", "attrB">>
      [] OTHER -> <<>>

IsDerived(s) == storesArray(s) # <<>>

Bool(b) == [kind |-> "boolean", v |-> IF b THEN <<1>> ELSE <<0>>]
IsTrue(v) == v.v = <<1>>
\* the text node cond() makes for the empty conditional
Anchor == [kind |-> "text", v |-> <<0, 0>>]

\* ([$previous, $current]) => !$previous && $current
ignorePrevious(previous, current) == current
elseifCondition(previous, current) == ~previous /\ current

\* the function given to derived()
fn(s, vals) ==
    CASE s = "a" -> Str(<<97>> \o vals[1].v)
      [] s = "b" -> Str(<<98>> \o vals[1].v)
      [] s = "domLinkStore" -> [kind |-> "object", v |-> vals[1].v \o vals[2].v]
      [] s \in {"e1", "e2"} -> Bool(elseifCondition(IsTrue(vals[1]), IsTrue(vals[2])))
      [] s \in {"p1", "p2"} -> Bool(IsTrue(vals[1]) \/ IsTrue(vals[2]))
      [] s \in {"tA", "tB"} -> [kind |-> "object", v |-> <<>>]
      [] OTHER -> Str(vals[1].v \o vals[2].v)

safeNotEqual(a, b) == a # b \/ a.kind \in ObjectKinds

\* the subscriber a derived store adds to its i-th dependency
DepSubscriber(s, i) == [kind |-> "dep", who |-> s, i |-> i, on |-> storesArray(s)[i]]
\* a subscriber of the caller
UserSubscriber(u, s) == [kind |-> "user", who |-> u, i |-> 0, on |-> s]

\* the subscribers defined further down
RECURSIVE branchRun(_, _, _)
RECURSIVE setContent(_, _, _)
RECURSIVE eachRun(_, _)
RECURSIVE triggered(_)
RECURSIVE rerender(_)
RECURSIVE callbackRun(_, _, _)
RECURSIVE listRun(_, _)
NoSubscriber == [kind |-> "none", who |-> "", i |-> 0, on |-> ""]

\* subscriber[1](): the invalidate of a derived store's subscriber
invalidate(W, sub) ==
    IF sub.kind = "dep" THEN [W EXCEPT !.pending[sub.who] = @ \cup {sub.i}] ELSE W

\* the loop over the subscribers in set: invalidate and push each of them
RECURSIVE invalidateAll(_, _, _)
invalidateAll(W, s, k) ==
    IF k > Len(W.subscribers[s])
    THEN W
    ELSE LET sub == W.subscribers[s][k]
             W1 == invalidate(W, sub)
         IN  invalidateAll([W1 EXCEPT !.subscriberQueue =
                                Append(@, [sub |-> sub, val |-> W1.value[s]])], s, k + 1)

\* writable: set(newValue)
set(W, s, newValue) ==
    IF ~safeNotEqual(W.value[s], newValue)
    THEN W
    ELSE LET W1 == [W EXCEPT !.value[s] = newValue]
         IN  IF ~W1.stop[s]
             THEN W1
             ELSE LET runNow == W1.subscriberQueue = <<>>
                      W2 == invalidateAll(W1, s, 1)
                  IN  IF runNow THEN call(W2, "runQueue", "", NoSubscriber, 1) ELSE W2

\* the loop that empties subscriberQueue; a subscriber that throws ends it
\* and the queue keeps what it held
runQueue(W, k) ==
    IF W.exception
    THEN W
    ELSE IF k > Len(W.subscriberQueue)
    THEN [W EXCEPT !.subscriberQueue = <<>>]
    ELSE call(call(W, "run", "", W.subscriberQueue[k].sub, W.subscriberQueue[k].val),
              "runQueue", "", NoSubscriber, k + 1)

\* subscriber[0](value): the run function of a subscriber
run(W, sub, v) ==
    CASE sub.kind = "dep" ->
           LET W1 == [W EXCEPT !.values[sub.who][sub.i] = v,
                               !.pending[sub.who] = @ \ {sub.i}]
           IN  IF W1.started[sub.who]
               THEN call(W1, "sync", sub.who, NoSubscriber, UndefinedValue)
               ELSE W1
      [] sub.kind = "user" ->
           [W EXCEPT !.delivered = Append(@, [sub |-> sub, val |-> v])]
      [] sub.kind = "attr" -> bindAttrValue(W, sub.who, v)
      [] sub.kind = "slot" -> updateDomTarget(W, sub.who, v)
      [] sub.kind = "branch" -> branchRun(W, sub.who, v)
      [] sub.kind = "content" -> setContent(W, sub.who, v)
      [] sub.kind = "each" -> eachRun(W, v)
      [] sub.kind = "watch" -> triggered(W)
      [] sub.kind = "callback" -> callbackRun(W, sub, v)
      [] sub.kind = "list" -> listRun(W, v)

\* derived: sync()
sync(W, s) ==
    IF W.pending[s] # {} THEN W ELSE call(W, "set", s, NoSubscriber, fn(s, W.values[s]))

\* a call of the start notifier, or of the stop function it returned, is
\* noted: twice when start is called again before stop, or stop before start
startCalled(W, s) == [W EXCEPT !.notifier[s] = IF @ = "idle" THEN "started" ELSE "twice"]
stopCalled(W, s) == [W EXCEPT !.notifier[s] = IF @ = "started" THEN "idle" ELSE "twice"]

\* the start notifier of a store (derived: lines 113-146; writable: noop)
start(W, s) ==
    IF ~IsDerived(s)
    THEN startCalled(W, s)
    ELSE LET W0 == [startCalled(W, s) EXCEPT !.started[s] = FALSE, !.pending[s] = {},
                             !.values[s] = [i \in 1..Len(storesArray(s)) |-> UndefinedValue]]
             W1 == call(W0, "subscribeDeps", s, NoSubscriber, 1)
         IN  call([W1 EXCEPT !.started[s] = TRUE], "sync", s, NoSubscriber, UndefinedValue)

subscribeDeps(W, s, i) ==
    IF i > Len(storesArray(s))
    THEN W
    ELSE call(call(W, "subscribe", storesArray(s)[i], DepSubscriber(s, i), UndefinedValue),
              "subscribeDeps", s, NoSubscriber, i + 1)

\* subscribe with stop set before start is called
subscribeReady(W, s, sub) ==
    LET W1 == [W EXCEPT !.subscribers[s] = Append(@, sub)]
        W2 == IF Len(W1.subscribers[s]) = 1
              THEN call([W1 EXCEPT !.stop[s] = TRUE], "start", s, NoSubscriber, UndefinedValue)
              ELSE W1
    IN  call(W2, "run", "", sub, W2.value[s])

\* writable: subscribe(run, invalidate)
subscribe(W, s, sub) ==
    LET W1 == [W EXCEPT !.subscribers[s] = Append(@, sub)]
        W2 == IF Len(W1.subscribers[s]) = 1
              THEN [call(W1, "start", s, NoSubscriber, UndefinedValue) EXCEPT !.stop[s] = TRUE]
              ELSE W1
    IN  call(W2, "run", "", sub, W2.value[s])

\* the stop function a derived store's start returns
stopDerived(W, s) ==
    IF ~IsDerived(s)
    THEN stopCalled(W, s)
    ELSE [call(stopCalled(W, s), "unsubscribeDeps", s, NoSubscriber, 1)
            EXCEPT !.started[s] = FALSE]

unsubscribeDeps(W, s, i) ==
    IF i > Len(storesArray(s))
    THEN W
    ELSE call(call(W, "unsubscribe", storesArray(s)[i], DepSubscriber(s, i), UndefinedValue),
              "unsubscribeDeps", s, NoSubscriber, i + 1)

\* an unsubscriber that calls stop whenever the store has one
unsubscribeAlways(W, s, sub) ==
    LET W1 == [W EXCEPT !.subscribers[s] = Without(@, sub)]
    IN  IF W1.stop[s]
        THEN [call(W1, "stopDerived", s, NoSubscriber, UndefinedValue) EXCEPT !.stop[s] = FALSE]
        ELSE W1

\* the unsubscriber returned by subscribe
unsubscribe(W, s, sub) ==
    LET W1 == [W EXCEPT !.subscribers[s] = Without(@, sub)]
    IN  IF W1.subscribers[s] = <<>> /\ W1.stop[s]
        THEN [call(W1, "stopDerived", s, NoSubscriber, UndefinedValue) EXCEPT !.stop[s] = FALSE]
        ELSE W1

\* the call of one of the functions above
call(W, name, s, sub, arg) ==
    CASE name = "set" -> set(W, s, arg)
      [] name = "runQueue" -> runQueue(W, arg)
      [] name = "run" -> run(W, sub, arg)
      [] name = "sync" -> sync(W, s)
      [] name = "start" -> start(W, s)
      [] name = "subscribeDeps" -> subscribeDeps(W, s, arg)
      [] name = "subscribe" -> subscribe(W, s, sub)
      [] name = "stopDerived" -> stopDerived(W, s)
      [] name = "unsubscribeDeps" -> unsubscribeDeps(W, s, arg)
      [] name = "unsubscribe" -> unsubscribe(W, s, sub)
      [] name = "rerender" -> rerender(W)

\* the value the store has when every store above it is up to date
RECURSIVE Fresh(_, _)
Fresh(W, s) ==
    IF ~IsDerived(s)
    THEN W.value[s]
    ELSE fn(s, [i \in 1..Len(storesArray(s)) |-> Fresh(W, storesArray(s)[i])])

\* the callers' subscribers and the stores they subscribe to
Users == {"u1", "u2"}
Observed == {"combined", "aThenCount", "countThenA"}

NoOp == [op |-> "none", changed |-> FALSE]

StoreInit ==
    /\ value = [s \in Stores |->
                    CASE IsDerived(s) -> UndefinedValue
                      [] s \in {"c1", "c2", "c3"} -> Bool(FALSE)
                      [] s = "nodeStore" -> Anchor
                      [] s = "content" -> [kind |-> "literal", v |-> <<5>>]
                      [] s = "collection" -> [kind |-> "array", v |-> <<>>]
                      [] s = "nodesStore" -> Anchor
                      [] OTHER -> Str(<<1>>)]
    /\ subscribers = [s \in Stores |-> <<>>]
    /\ stop = [s \in Stores |-> FALSE]
    /\ values = [s \in Stores |-> <<>>]
    /\ pending = [s \in Stores |-> {}]
    /\ started = [s \in Stores |-> FALSE]
    /\ subscriberQueue = <<>>
    /\ delivered = <<>>
    /\ lastOp = NoOp
    /\ unsubscribed = <<>>
    /\ notifier = [s \in Stores |-> "idle"]

\* store.subscribe(run) by a caller
StoreSubscribe(u, s) ==
    /\ ~Has(subscribers[s], UserSubscriber(u, s))
    /\ LET W == call([World EXCEPT !.delivered = <<>>], "subscribe", s, UserSubscriber(u, s),
                    UndefinedValue)
       IN  Becomes([W EXCEPT !.lastOp = [op |-> "subscribe", changed |-> FALSE]])
    /\ UNCHANGED notRun

\* the caller calls the unsubscriber it got
StoreUnsubscribe(u, s) ==
    /\ Has(subscribers[s], UserSubscriber(u, s))
    /\ LET W == call([World EXCEPT !.delivered = <<>>], "unsubscribe", s, UserSubscriber(u, s),
                    UndefinedValue)
       IN  Becomes([W EXCEPT !.lastOp = [op |-> "unsubscribe", changed |-> FALSE],
                             !.unsubscribed = <<u, s>>])
    /\ UNCHANGED notRun

\* the subscriber array of a subscription whose unsubscriber was called: it
\* is no longer in the set, whoever subscribed since
SameSubscriber(u, s) == UserSubscriber(u, s)
StaleSubscriber(u, s) == [UserSubscriber(u, s) EXCEPT !.i = -1]

\* the caller calls again the unsubscriber it called last
StoreUnsubscribeAgain ==
    /\ unsubscribed # <<>>
    /\ LET u == unsubscribed[1]
           s == unsubscribed[2]
           stops == Without(subscribers[s], StaleSubscriber(u, s)) = <<>> /\ stop[s]
           W == call([World EXCEPT !.delivered = <<>>], "unsubscribe", s,
                     StaleSubscriber(u, s), UndefinedValue)
       IN  Becomes([W EXCEPT !.lastOp =
                [op |-> "unsubscribeAgain",
                 changed |-> \/ stops
                             \/ W.exception
                             \/ W.delivered # <<>>
                             \/ <<W.value, W.subscribers, W.stop, W.values, W.pending,
                                  W.started, W.subscriberQueue>>
                                  # <<value, subscribers, stop, values, pending,
                                       started, subscriberQueue>>]])
    /\ UNCHANGED notRun

\* count.set(v)
StoreSet(v) ==
    /\ LET W == call([World EXCEPT !.delivered = <<>>], "set", "count", NoSubscriber, Str(<<v>>))
       IN  Becomes([W EXCEPT !.lastOp = [op |-> "set",
                                         changed |-> safeNotEqual(value["count"], Str(<<v>>))]])
    /\ UNCHANGED notRun

StoreNext ==
    \/ \E u \in Users, s \in Observed : StoreSubscribe(u, s)
    \/ \E u \in Users, s \in Observed : StoreUnsubscribe(u, s)
    \/ StoreUnsubscribeAgain
    \/ \E v \in 1..MaxVal : StoreSet(v)

(***************************************************************************)
(*        template/tag.ts: building and disposing the bound node           *)
(***************************************************************************)
\* the store of the DomLink of a site (getDomLinkStore)
OneStore(site) == IF site = "class" THEN "domLinkStore" ELSE "text"
SiteStore(site) ==
    CASE site = "class" -> "domLinkStore"
      [] site = "slot2" -> "text2"
      [] OTHER -> "text"
\* the subscriber a binding adds to the store of its DomLink
SiteSubscriber(site) ==
    [kind |-> IF site \in Slots THEN "slot" ELSE "attr", who |-> site, i |-> 0,
     on |-> SiteStore(site)]

\* the values given to the store text: two strings and an element
TextValues == {Str(<<1>>), Str(<<2>>), El(1)}

\* the values given to text when the child text has two parts: a string, an
\* element, a Text node and an array of elements
SlotValues ==
    {Str(<<1>>), El(1), [kind |-> "text", v |-> <<CallerText>>],
     [kind |-> "array", v |-> <<ElementBase + 1, ElementBase + 2>>]}

BindInitIn(templateSites, modes) ==
    /\ domOperations = <<>>
    /\ updateDomMode \in modes
    /\ sites = templateSites
    /\ created = FALSE
    /\ disposed = FALSE
    /\ target = [slot \in Slots |-> NoTarget]
    /\ texts = << <<35>>, <<84>> >>
    /\ domSlot = <<TemplateText>>
    /\ domAttr = [class |-> <<120, 35, 35>>, title |-> <<35>>]
    /\ notified = NoRun.notified
    /\ lastUpdate = [slot \in Slots |-> NoUpdate]
    /\ lateChanges = FALSE
    /\ lastRun = NoRun

\* the default of the option updateDomMode
BindInit(templateSites) == BindInitIn(templateSites, {"BATCHED"})

\* the nodes bindChildTextNode pushes for a binding part
targetNodes(t) ==
    IF t.array # <<>> THEN t.array ELSE <<IF t.el # NoNode THEN t.el ELSE t.text>>

\* handleChildTextNode: queue the replacement of the template's text node by
\* the nodes bindChildTextNode returned
handleChildTextNode(W, replacingNodes) ==
    domOp(W, replaceBy(W, Single(TemplateText), Many(replacingNodes), "build"), "")

\* bindChildTextNode: the parts of the template in order, a node made for
\* the literal part and a subscription for each binding part, the nodes of
\* the parts pushed in order
RECURSIVE bindParts(_, _, _)
bindParts(W, parts, nodes) ==
    LET bound(X, slot) == bindParts(X, Tail(parts), nodes \o targetNodes(X.target[slot]))
        literal(X) == bindParts(X, Tail(parts), Append(nodes, Len(X.texts)))
    IN  IF parts = <<>>
        THEN handleChildTextNode(W, nodes)
        ELSE IF Head(parts) \in Slots
        THEN bound(call(W, "subscribe", SiteStore(Head(parts)), SiteSubscriber(Head(parts)),
                        UndefinedValue),
                   Head(parts))
        ELSE literal(createTextNode(W, <<32>>))

bindChildTextNode(W) ==
    bindParts(W, IF "slot2" \in W.sites THEN <<"slot", "literal", "slot2">> ELSE <<"slot">>,
              <<>>)

\* bindAttributes: a subscription for each bound attribute of the template
RECURSIVE bindAttrs(_, _)
bindAttrs(W, attrs) ==
    IF attrs = <<>>
    THEN W
    ELSE bindAttrs(IF Head(attrs) \in W.sites
                   THEN call(W, "subscribe", SiteStore(Head(attrs)),
                             SiteSubscriber(Head(attrs)), UndefinedValue)
                   ELSE W,
                   Tail(attrs))

\* bindStates: the attributes of the element, then its child text
bindStates(W) ==
    LET bindChild(X) == IF "slot" \in X.sites THEN bindChildTextNode(X) ELSE X
    IN  bindChild(bindAttrs(W, <<"class", "title">>))

\* unsub?.() in the dispose function of a DomLink
KeepSubscribed(W, s, sub) == W
Release(W, s, sub) == call(W, "unsubscribe", s, sub, UndefinedValue)

\* disposeLiterals: the DomLink of every binding is disposed
RECURSIVE disposeLinks(_, _)
disposeLinks(W, links) ==
    IF links = <<>>
    THEN W
    ELSE disposeLinks(IF Head(links) \in W.sites
                      THEN Release(W, SiteStore(Head(links)), SiteSubscriber(Head(links)))
                      ELSE W,
                      Tail(links))

disposeLiterals(W) == disposeLinks(W, <<"class", "title", "slot", "slot2">>)

\* in EAGER mode the writes are made during the calls: the record of the
\* last run is the record of the last set
BeginSet(W) == IF W.updateDomMode = "EAGER" THEN StartRun(W, "set") ELSE W

\* room for one more notification of the parts of the child text
SlotRoom == \A slot \in Slots : notified[slot] < MaxSlotNotified

\* room for one more synchronous call in the turn
Room ==
    /\ Len(microtasks) < MaxMicrotasks
    /\ \A site \in DOMAIN notified : notified[site] < MaxNotified

\* node(html`...`) with the template
CreateNode ==
    /\ ~created
    /\ Becomes([bindStates(BeginTurn(World)) EXCEPT !.created = TRUE])
    /\ UNCHANGED notRun

\* dispose(node)
DisposeNode ==
    /\ created /\ ~disposed
    /\ Becomes([disposeLiterals(BeginTurn(World)) EXCEPT !.disposed = TRUE])
    /\ UNCHANGED notRun

\* s.set(v) on a store of the attribute
SetAttrStore(s, v) ==
    /\ Room
    /\ LET W == call(BeginSet(BeginTurn(World)), "set", s, NoSubscriber, Str(<<v>>))
       IN  Becomes([W EXCEPT !.lateChanges = @ \/ (disposed /\ value[s] # Str(<<v>>))])
    /\ UNCHANGED notRun

\* text.set(v)
SetText(v) ==
    /\ Room
    /\ Len(texts) < MaxTexts
    /\ LET W == call(BeginSet(BeginTurn(World)), "set", "text", NoSubscriber, v)
       IN  Becomes([W EXCEPT !.lateChanges = @ \/ (disposed /\ safeNotEqual(value["text"], v))])
    /\ UNCHANGED notRun

\* text2.set(v)
SetText2(v) ==
    /\ Room
    /\ LET W == call(BeginSet(BeginTurn(World)), "set", "text2", NoSubscriber, Str(<<v>>))
       IN  Becomes([W EXCEPT !.lateChanges = @ \/ (disposed /\ value["text2"] # Str(<<v>>))])
    /\ UNCHANGED notRun

\* flush(); an exception it lets out is caught by the caller
Flush ==
    /\ Becomes([flush(StartRun(BeginTurn(World), "flush")) EXCEPT !.exception = FALSE])
    /\ UNCHANGED notRun

AttrNext ==
    \/ CreateNode
    \/ DisposeNode
    \/ \E s \in {"attrA", "attrB"}, v \in 1..MaxVal : SetAttrStore(s, v)
    \/ Flush
    \/ Tick

BindNext ==
    \/ CreateNode
    \/ DisposeNode
    \/ \E v \in TextValues : SetText(v)
    \/ Flush
    \/ Tick


SlotNext ==
    \/ CreateNode
    \/ DisposeNode
    \/ \E v \in SlotValues : SlotRoom /\ SetText(v)
    \/ \E v \in 1..MaxVal : SlotRoom /\ SetText2(v)
    \/ Flush
    \/ Tick

EagerNext ==
    \/ CreateNode
    \/ DisposeNode
    \/ \E s \in {"attrA", "attrB"}, v \in 1..MaxVal : SetAttrStore(s, v)
    \/ \E v \in TextValues : SetText(v)
    \/ Flush
    \/ Tick
(***************************************************************************)
(*                      snippets/condition.ts                              *)
(*                                                                         *)
(*   cond().if(c1, k).elseif(c2, k).elseif(c3, k).else(k)                  *)
(*                                                                         *)
(* with any prefix of the chain built.  The content of branch i is a node  *)
(* of the caller, a function that returns a new node at each call, a       *)
(* template description (HtmlLiterals) or the store content, which holds   *)
(* a template description or a node of the caller.  Template descriptions  *)
(* and functions are numbered: i for the one given to branch i, above      *)
(* for the ones the store holds.  The node <<i, n>> is the n-th node made  *)
(* by function or description i; <<i, 0>> is a node of the caller.         *)
(***************************************************************************)
Branches == <<"if", "elseif1", "elseif2", "else">>
BranchSet == {Branches[i] : i \in 1..Len(Branches)}
BranchIndex(b) == CHOOSE i \in 1..Len(Branches) : Branches[i] = b
ContentKinds == {"node", "fn", "literal", "store"}
TestContent(b) ==
    CASE b = "if" -> "node" [] b = "elseif1" -> "fn"
      [] b = "elseif2" -> "literal" [] b = "else" -> "store"

\* the contents given to the four branches: all of one kind, or one of each
\* as in 'disposes conditional branch after condition change'
Contents ==
    {[b \in BranchSet |-> k] : k \in ContentKinds}
        \cup {[b \in BranchSet |-> TestContent(b)]}

Literal(i) == [kind |-> "literal", v |-> <<i>>]
Element(i, n) == [kind |-> "element", v |-> <<i, n>>]
\* what the caller puts in the store content
ContentValues == {Literal(5), Literal(6), Element(7, 0)}
Makers == 1..6

\* the condition given for a branch
ConditionOf(b) ==
    CASE b = "if" -> "c1" [] b = "elseif1" -> "c2" [] b = "elseif2" -> "c3"

\* the store a branch subscribes to: condition, _condition or onePrevious
BranchStore(b, elseifs) ==
    CASE b = "if" -> "c1"
      [] b = "elseif1" -> "e1"
      [] b = "elseif2" -> "e2"
      [] b = "else" -> CASE elseifs = 0 -> "c1" [] elseifs = 1 -> "p1" [] OTHER -> "p2"

BranchSubscriber(b, elseifs) ==
    [kind |-> "branch", who |-> b, i |-> 0, on |-> BranchStore(b, elseifs)]

\* the subscriber bindContent adds to the store given as content
ContentSubscriber(b) == [kind |-> "content", who |-> b, i |-> 0, on |-> "content"]

\* literals.node
CachedNode(W, i) == Element(i, W.made[i])
IsCached(W, i) == W.made[i] > 0 /\ CachedNode(W, i) \notin W.disposedNodes

\* node(literals): the cached node, or a new one
node(W, i) == IF IsCached(W, i) THEN W ELSE [W EXCEPT !.made[i] = @ + 1]

\* the node a branch gives now
ContentNode(W, b) ==
    CASE W.contentKind[b] = "node" -> Element(BranchIndex(b), 0)
      [] W.contentKind[b] \in {"fn", "literal"} -> CachedNode(W, BranchIndex(b))
      [] W.contentKind[b] = "store" ->
           IF W.value["content"].kind = "literal"
           THEN CachedNode(W, W.value["content"].v[1])
           ELSE W.value["content"]

\* nodeStore.get()
get(W, s) == W.value[s]

\* setContent(nodeStore, content), for branch b
setContent(W, b, content) ==
    LET W1 == IF content.kind = "literal" THEN node(W, content.v[1]) ELSE W
        n == IF content.kind = "literal" THEN CachedNode(W1, content.v[1]) ELSE content
    IN  call([W1 EXCEPT !.shown[b] = n], "set", "nodeStore", NoSubscriber, n)

\* applyContent(nodeStore, contentProvider)
applyContent(W, b) ==
    LET i == BranchIndex(b)
    IN  CASE W.contentKind[b] = "node" -> setContent(W, b, Element(i, 0))
          [] W.contentKind[b] = "fn" ->
               LET W1 == [W EXCEPT !.made[i] = @ + 1]
               IN  setContent(W1, b, CachedNode(W1, i))
          [] W.contentKind[b] = "literal" -> setContent(W, b, Literal(i))
          [] W.contentKind[b] = "store" ->
               call(W, "subscribe", "content", ContentSubscriber(b), UndefinedValue)

\* activateBranch(unsubs, nodeStore, branchState, content)
activateBranch(W, b) ==
    LET W1 == applyContent(W, b)
    IN  [W1 EXCEPT !.branchState[b] = [active |-> TRUE, node |-> get(W1, "nodeStore")]]

\* the condition of _dispose(content, contentOrProvider)
IsRegenerated(W, b) ==
    \/ W.contentKind[b] \in {"fn", "literal"}
    \/ W.contentKind[b] = "store" /\ get(W, "content").kind = "literal"

\* deactivateBranch(unsubs, branchState, content)
deactivateBranch(W, b) ==
    IF W.branchState[b].active
    THEN LET W1 == IF W.contentKind[b] = "store"
                   THEN call(W, "unsubscribe", "content", ContentSubscriber(b),
                             UndefinedValue)
                   ELSE W
             W2 == IF IsRegenerated(W1, b)
                   THEN [W1 EXCEPT !.disposedNodes = @ \cup {W.branchState[b].node}]
                   ELSE W1
         IN  [W2 EXCEPT !.branchState[b] = [active |-> FALSE, node |-> UndefinedValue],
                        !.deactivated = Append(@, [branch |-> b,
                                                   content |-> W.shown[b],
                                                   kind |-> W.contentKind[b],
                                                   holds |-> get(W, "content").kind,
                                                   disposed |-> W.shown[b] \in W2.disposedNodes])]
    ELSE W

\* the subscribers of _if, _elseif and _else
branchRun(W, b, v) ==
    CASE b = "if" ->
           IF IsTrue(v)
           THEN activateBranch(W, b)
           ELSE call(deactivateBranch(W, b), "set", "nodeStore", NoSubscriber, Anchor)
      [] b = "else" ->
           IF ~IsTrue(v) THEN activateBranch(W, b) ELSE deactivateBranch(W, b)
      [] OTHER ->
           IF IsTrue(v) THEN activateBranch(W, b) ELSE deactivateBranch(W, b)

CondInit(kinds) ==
    /\ built = <<>>
    /\ contentKind \in kinds
    /\ branchState = [b \in BranchSet |-> [active |-> FALSE, node |-> UndefinedValue]]
    /\ made = [i \in Makers |-> 0]
    /\ shown = [b \in BranchSet |-> UndefinedValue]
    /\ deactivated = <<>>
    /\ disposedNodes = {}

Elseifs == Cardinality({i \in 1..Len(built) : built[i] \in {"elseif1", "elseif2"}})

\* a function or a template description may still make a node
CanMake == \A i \in Makers : made[i] < MaxMade

\* the state a call of the caller starts from
CondCall == [World EXCEPT !.deactivated = <<>>]

Build(b) ==
    /\ CanMake
    /\ LET W == call(CondCall, "subscribe", BranchStore(b, Elseifs),
                    BranchSubscriber(b, Elseifs), UndefinedValue)
       IN  Becomes([W EXCEPT !.built = Append(@, b),
                             !.lastOp = [op |-> "build", changed |-> FALSE]])
    /\ UNCHANGED notRun

\* cond().if(c1, content)
CondIf ==
    /\ built = <<>>
    /\ Build("if")

\* .elseif(c, content)
CondElseif ==
    /\ built # <<>> /\ Last(built) # "else"
    /\ Elseifs < 2
    /\ Build(Branches[Elseifs + 2])

\* .else(content)
CondElse ==
    /\ built # <<>> /\ Last(built) # "else"
    /\ Build("else")

\* c.set(v) on a condition
CondSet(c, v) ==
    /\ CanMake
    /\ LET W == call(CondCall, "set", c, NoSubscriber, Bool(v))
       IN  Becomes([W EXCEPT !.lastOp = [op |-> "set", changed |-> value[c] # Bool(v)]])
    /\ UNCHANGED notRun

\* content.set(v) on the store given as content
ContentSet(v) ==
    /\ CanMake
    /\ \E b \in BranchSet : contentKind[b] = "store"
    /\ LET W == call(CondCall, "set", "content", NoSubscriber, v)
       IN  Becomes([W EXCEPT !.lastOp = [op |-> "content", changed |-> TRUE]])
    /\ UNCHANGED notRun

CondNext ==
    \/ CondIf
    \/ CondElseif
    \/ CondElse
    \/ \E c \in {"c1", "c2", "c3"}, v \in BOOLEAN : CondSet(c, v)
    \/ \E v \in ContentValues : ContentSet(v)

(***************************************************************************)
(*                        snippets/loop.ts                                 *)
(*                                                                         *)
(*   loop(options).each(collection, buildItemContent, getItemKey)          *)
(*                                                                         *)
(* An item is its key; the collection is an array of items with distinct   *)
(* keys.  buildItemContent makes a new node at each call: node n * Radix   *)
(* + k is the n-th node made for the item of key k.  The store is read by  *)
(* the caller, as in loop.test.ts, or bound in the child text of a         *)
(* template, <ul>#{list}</ul>: domSlot is then the children of the element *)
(* and listTarget the target of the binding, which holds the array of the  *)
(* store itself (mapArray returns the array it is given).                  *)
(***************************************************************************)
ItemKeys == 1..MaxItems
Radix == MaxItems + 1
ItemNode(k, n) == n * Radix + k
ItemOf(nd) == nd % Radix

\* the key functions: none given, one that throws on undefined
\* (item => item.toString(), item => item.id), one that does not (String)
KeyFns == {"none", "throws", "total"}

Array(seq) == [kind |-> "array", v |-> seq]

NoApply ==
    [path |-> "none", sets |-> 0, disposed |-> <<>>, before |-> Anchor,
     prevArr |-> [defined |-> FALSE, arr |-> <<>>], newArr |-> <<>>]

\* the anchor of loop() as a child node
AnchorNode == 0
\* the subscriber bindNodeValue adds to the store of the list
ListSubscriber == [kind |-> "list", who |-> "", i |-> 0, on |-> "nodesStore"]
\* a node is a child of the element: node.parentElement
parentElement(W, nd) == Has(W.domSlot, nd)
\* the functions apply gives to domOp
NodeFn(kind, ref, el) ==
    [Fn(kind) EXCEPT !.from = <<ref>>, !.to = IF el = NoNode THEN <<>> ELSE <<el>>,
                     !.site = "list"]

LoopInit(options) ==
    /\ listTarget = UndefinedValue
    /\ loopOptions \in options
    /\ eachCalled = FALSE
    /\ previousArray = [defined |-> FALSE, arr |-> <<>>]
    /\ itemsMade = [k \in ItemKeys |-> 0]
    /\ lastApply = NoApply

\* nodesStore.set(v) made by apply
setNodes(W, v) ==
    call([W EXCEPT !.lastApply.sets = @ + 1], "set", "nodesStore", NoSubscriber, v)

\* dispose(node)
keepItem(W, nd) == W
disposeItem(W, nd) == [W EXCEPT !.lastApply.disposed = Append(@, nd)]

RECURSIVE disposeAll(_, _)
disposeAll(W, nodes) ==
    IF nodes = <<>> THEN W ELSE disposeAll(disposeItem(W, Head(nodes)), Tail(nodes))

\* buildItemContent(item) and node(content): the state after it, and the node
buildItem(W, k) == [W EXCEPT !.itemsMade[k] = @ + 1]
itemNode(W, k) == ItemNode(k, W.itemsMade[k])

\* the array in nodesStore, changed in place: the target of the binding and
\* the replaceBy function queued with it hold the same array
mutate(W, seq) ==
    LET old == W.value["nodesStore"]
        holds(f) == f.kind = "replaceBy" /\ f.site = "list" /\ f.to = old.v
    IN  [W EXCEPT !.value["nodesStore"] = Array(seq),
                  !.listTarget = IF @ = old THEN Array(seq) ELSE @,
                  !.domOperations = [i \in DOMAIN @ |->
                                        IF holds(@[i]) THEN [@[i] EXCEPT !.to = seq] ELSE @[i]]]

\* removeAt(nodesStore, index, anchor, updateDomMode, disposeNode):
\* the state after it, and the node it returns (0 for undefined)
removeAt(W, index, disposeNode) ==
    LET nodes == get(W, "nodesStore")
        nd == At(nodes.v, IF index < 0 THEN Len(nodes.v) + index ELSE index)
        rest == Splice(nodes.v, index, 1, <<>>)
        removed(X) ==
            IF parentElement(X, nd) THEN domOp(X, NodeFn("remove", nd, NoNode), "") ELSE X
        released(X) == IF disposeNode THEN disposeItem(X, nd) ELSE X
        emptied(X) == [W |-> IF rest = <<>> THEN setNodes(X, Anchor) ELSE X, node |-> nd]
    IN  IF nodes.kind = "array" /\ Len(nodes.v) > index
        THEN IF index < -Len(nodes.v) \/ nodes.v = <<>>
             THEN [W |-> throw(W), node |-> 0]
             ELSE emptied(released(removed(mutate(W, rest))))
        ELSE [W |-> W, node |-> 0]

\* append(nodesStore, el, updateDomMode)
append(W, el) ==
    LET nodes == get(W, "nodesStore")
        placed(X) == mutate(X, Append(nodes.v, el))
    IN  IF nodes.kind = "array" /\ nodes.v # <<>>
        THEN placed(IF parentElement(W, Last(nodes.v))
                    THEN domOp(W, NodeFn("after", Last(nodes.v), el), "")
                    ELSE W)
        ELSE setNodes(W, Array(<<el>>))

\* insertBefore(nodesStore, el, index, updateDomMode)
insertBefore(W, el, index) ==
    LET nodes == get(W, "nodesStore")
    IN  IF nodes.kind = "array" /\ Len(nodes.v) > index
        THEN LET W1 == mutate(W, Splice(nodes.v, index, 0, <<el>>))
                 queued(X) == IF parentElement(X, At(nodes.v, index))
                              THEN domOp(X, NodeFn("before", At(nodes.v, index), el), "")
                              ELSE X
             IN  IF index < 0 THEN throw(W1) ELSE queued(W1)
        ELSE W

\* insertAt(nodesStore, index, el, updateDomMode)
insertAt(W, index, el) ==
    LET nodes == get(W, "nodesStore")
    IN  IF nodes.kind = "text" \/ index >= Len(nodes.v)
        THEN append(W, el)
        ELSE insertBefore(W, el, index)

\* the body of diffResult.ops.forEach
applyLoopOp(W, op) ==
    CASE op.type = "DEL" -> removeAt(W, op.index, TRUE).W
      [] op.type = "MOV" ->
           LET moved(r) == IF r.node # 0 /\ ~r.W.exception
                           THEN insertAt(r.W, op.indexDst, r.node)
                           ELSE r.W
           IN  moved(removeAt(W, op.index, FALSE))
      [] op.type = "ADD" ->
           LET added(X) == insertAt(X, op.index, itemNode(X, keyFn(op.item)))
           IN  added(buildItem(W, keyFn(op.item)))

RECURSIVE applyLoopOps(_, _)
applyLoopOps(W, ops) ==
    IF ops = <<>> \/ W.exception
    THEN W
    ELSE applyLoopOps(applyLoopOp(W, Head(ops)), Tail(ops))

RECURSIVE buildAll(_, _, _)
buildAll(W, newArr, newNodes) ==
    IF newArr = <<>>
    THEN [W |-> W, newNodes |-> newNodes]
    ELSE LET W1 == buildItem(W, Head(newArr))
         IN  buildAll(W1, Tail(newArr), Append(newNodes, itemNode(W1, Head(newArr))))

\* newNodes.length ? newNodes : anchor
alwaysArray(newNodes) == Array(newNodes)
arrayOrAnchor(newNodes) == IF newNodes # <<>> THEN Array(newNodes) ELSE Anchor

\* apply, lines 96-115: the whole list is built again
rebuild(W, newArr) ==
    LET oldNodes == get(W, "nodesStore")
        W1 == IF oldNodes.kind = "array" THEN disposeAll(W, oldNodes.v) ELSE W
        r == buildAll(W1, newArr, <<>>)
    IN  setNodes([r.W EXCEPT !.lastApply.path = "rebuild"], arrayOrAnchor(r.newNodes))

\* getItemKeyFn(previousArray, nextArray, getItemKey): whether apply gets a
\* key function
hasItemKey(W, newArr) ==
    LET valuesAreObjects ==
            IF W.previousArray.defined /\ W.previousArray.arr # <<>>
            THEN W.loopOptions.objects
            ELSE newArr # <<>> /\ W.loopOptions.objects
    IN  W.loopOptions.getItemKey # "none" \/ valuesAreObjects

\* keyFn(undefined) throws: defaultObjectItemKeyFn gives undefined to
\* WeakMap.set, item => item.id reads a property of undefined
keyThrowsOnUndefined(W) == W.loopOptions.getItemKey # "total"

\* apply, lines 79-93: what is done with the result of diffArray
applyResult(W, newArr, diffResultOf) ==
    IF diffResultOf.threw
    THEN throw([W EXCEPT !.lastApply.path = "threw"])
    ELSE IF ~diffResultOf.overkill
    THEN applyLoopOps([W EXCEPT !.lastApply.path = "patch"], diffResultOf.ops)
    ELSE rebuild(W, newArr)

\* diffArray(prevArr, newArr, getItemKey); of an undefined array it is overkill
diffPrevious(W, newArr) ==
    IF ~W.previousArray.defined
    THEN [ops |-> <<>>, overkill |-> TRUE, threw |-> FALSE, iterations |-> 0]
    ELSE diffArray(Tagged(W.previousArray.arr, "old"), Tagged(newArr, "new"),
                   keyThrowsOnUndefined(W))

\* apply(nodesStore, anchor, prevArr, newArr, buildItemContent, ...)
applyFrom(W, newArr) ==
    IF W.loopOptions.useDiffing /\ hasItemKey(W, newArr)
    THEN applyResult(W, newArr, diffPrevious(W, newArr))
    ELSE rebuild(W, newArr)

apply(W, newArr) ==
    applyFrom([W EXCEPT !.lastApply = [NoApply EXCEPT !.before = get(W, "nodesStore"),
                                                      !.prevArr = W.previousArray,
                                                      !.newArr = newArr]], newArr)

\* the subscriber each() gives to the collection
eachRun(W, v) ==
    LET W1 == apply(W, v.v)
    IN  IF W1.exception
        THEN W1
        ELSE [W1 EXCEPT !.previousArray = [defined |-> TRUE, arr |-> v.v]]

\* updateDomTarget for the binding of the list: the store holds the anchor
\* or a non-empty array of nodes
listRun(W, v) ==
    LET t == W.listTarget
        held(X) == [X EXCEPT !.listTarget = v]
    IN  CASE t.kind = "text" /\ v.kind = "array" ->
               \* textToArray
               held(domOp(W, replaceBy(W, Single(AnchorNode), Many(v.v), "list"), ""))
          [] t.kind = "text" -> W
          [] t.kind = "array" /\ t.v # <<>> /\ v.kind = "array" ->
               \* arrayToArray
               held(domOp(W, replaceBy(W, Many(t.v), Many(v.v), "list"), ""))
          [] t.kind = "array" /\ t.v # <<>> ->
               \* arrayToText
               held(domOp(W, replaceBy(W, Many(t.v), Single(AnchorNode), "list"), ""))
          [] OTHER -> held(W)

\* the nodes bindChildTextNode pushes for the list: ...target.array, or the
\* text of the target
listNodes(t) == IF t.kind = "array" THEN t.v ELSE <<AnchorNode>>

\* the collections the caller gives
Collections ==
    UNION {{s \in [1..m -> ItemKeys] : \A i, j \in 1..m : i # j => s[i] # s[j]} :
             m \in 0..MaxItems}

\* buildItemContent may still make a node
CanBuild == \A k \in ItemKeys : itemsMade[k] < MaxBuilt

\* loop(options).each(collection, buildItemContent, getItemKey)
Each ==
    /\ ~eachCalled
    /\ LET W == call(World, "subscribe", "collection",
                    [kind |-> "each", who |-> "", i |-> 0, on |-> "collection"],
                    UndefinedValue)
       IN  Becomes([W EXCEPT !.eachCalled = TRUE,
                             !.lastOp = [op |-> "each", changed |-> FALSE]])
    /\ UNCHANGED notRun

\* collection.set(items); an exception of the subscriber reaches the caller,
\* who sets no store after that
CollectionSet(ks) ==
    /\ CanBuild
    /\ subscriberQueue = <<>>
    /\ LET W == call([World EXCEPT !.lastApply = NoApply], "set", "collection", NoSubscriber,
                    Array(ks))
       IN  Becomes([W EXCEPT !.exception = FALSE,
                             !.lastOp = [op |-> "set", changed |-> W.exception]])
    /\ UNCHANGED notRun

\* node(html`<ul>#{list}</ul>`) with list = loop().each(collection, build, key)
bindList(W) ==
    LET replaced(X) ==
            domOp(X, replaceBy(X, Single(TemplateText), Many(listNodes(X.listTarget)), "build"),
                  "")
    IN  replaced(call(W, "subscribe", "nodesStore", ListSubscriber, UndefinedValue))

MountList ==
    /\ ~eachCalled
    /\ LET W == bindList(call(BeginTurn(World), "subscribe", "collection",
                              [kind |-> "each", who |-> "", i |-> 0, on |-> "collection"],
                              UndefinedValue))
       IN  Becomes([W EXCEPT !.eachCalled = TRUE, !.created = TRUE,
                             !.lastOp = [op |-> "each", changed |-> FALSE]])
    /\ UNCHANGED notRun

\* collection.set(items) in a turn of the caller
ListSet(ks) ==
    /\ CanBuild
    /\ subscriberQueue = <<>>
    /\ Len(domOperations) <= MaxListOps
    /\ LET W == call(BeginTurn([World EXCEPT !.lastApply = NoApply]), "set", "collection",
                    NoSubscriber, Array(ks))
       IN  Becomes([W EXCEPT !.exception = FALSE,
                             !.lastOp = [op |-> "set", changed |-> W.exception]])
    /\ UNCHANGED notRun

ListNext ==
    \/ MountList
    \/ \E ks \in Collections : ListSet(ks)
    \/ Tick

LoopNext ==
    \/ Each
    \/ \E ks \in Collections : CollectionSet(ks)

(***************************************************************************)
(*     stores/index.ts: subscribers that act while they are notified       *)
(*                                                                         *)
(* Two callers subscribe a callback, one to count and to a (derived from   *)
(* count), the other to count and to text.  A callback records the value;  *)
(* it may then call the unsubscriber of the other caller's subscription to *)
(* the same store, set text to the value it received from count or a, set  *)
(* its own store back to 1 when it receives the highest value, or throw on *)
(* that value.                                                             *)
(***************************************************************************)
Callers == {"k1", "k2"}
Behaviours == {"record", "cancel", "mirror", "reset", "throw"}
Heard == {"count", "a", "text"}
\* the stores each caller subscribes to
Hears(k) == IF k = "k1" THEN {"count", "a"} ELSE {"count", "text"}
\* the highest value given to a store
Top == MaxVal

CallbackSubscriber(k, s) == [kind |-> "callback", who |-> k, i |-> 0, on |-> s]
OtherCaller(k) == IF k = "k1" THEN "k2" ELSE "k1"
\* the writable store the value of a store comes from
Source(s) == IF s = "text" THEN "text" ELSE "count"
Digit(v) == IF v.v = <<>> THEN 0 ELSE Last(v.v)

\* run(value) of a caller's callback
callbackRun(W, sub, v) ==
    LET heard == [W EXCEPT !.received[sub.who][sub.on] = v,
                           !.lateCalls = IF Has(W.subscribers[sub.on], sub)
                                         THEN @
                                         ELSE @ \cup {<<sub.who, sub.on>>}]
        does == W.behaviour[sub.who]
        other == CallbackSubscriber(OtherCaller(sub.who), sub.on)
    IN  CASE does = "cancel" /\ Has(W.subscribers[sub.on], other) ->
               call(heard, "unsubscribe", sub.on, other, UndefinedValue)
          [] does = "mirror" /\ Source(sub.on) = "count" ->
               call(heard, "set", "text", NoSubscriber, Str(<<Digit(v)>>))
          [] does = "reset" /\ Digit(v) = Top ->
               call(heard, "set", Source(sub.on), NoSubscriber, Str(<<1>>))
          [] does = "throw" /\ Digit(v) = Top -> throw(heard)
          [] OTHER -> heard

CallbackInit(behaviours) ==
    /\ behaviour \in behaviours
    /\ received = [k \in Callers |-> [s \in Heard |-> UndefinedValue]]
    /\ lateCalls = {}
    /\ threw = FALSE

\* the call begins: no late call, nothing thrown
Calling == [World EXCEPT !.lateCalls = {}, !.threw = FALSE]
\* the call ended: the caller catches what it threw; what the callbacks no
\* longer subscribed had received is forgotten
Called(W, op) ==
    [W EXCEPT !.lastOp = op, !.threw = W.exception, !.exception = FALSE,
              !.received = [k \in Callers |-> [s \in Heard |->
                               IF Has(W.subscribers[s], CallbackSubscriber(k, s))
                               THEN W.received[k][s]
                               ELSE UndefinedValue]]]

\* store.subscribe(callback); a callback that throws on the highest value is
\* subscribed while the store holds another value
CallbackSubscribe(k, s) ==
    /\ ~Has(subscribers[s], CallbackSubscriber(k, s))
    /\ behaviour[k] = "throw" => Digit(Fresh(World, s)) # Top
    /\ Becomes(Called(call(Calling, "subscribe", s, CallbackSubscriber(k, s), UndefinedValue),
                      [op |-> "subscribe", changed |-> FALSE, on |-> s]))
    /\ UNCHANGED notRun

\* the caller calls the unsubscriber it got
CallbackUnsubscribe(k, s) ==
    /\ Has(subscribers[s], CallbackSubscriber(k, s))
    /\ Becomes(Called(call(Calling, "unsubscribe", s, CallbackSubscriber(k, s),
                           UndefinedValue),
                      [op |-> "unsubscribe", changed |-> FALSE, on |-> s]))
    /\ UNCHANGED notRun

\* s.set(v) by the caller, outside any notification
CallbackSet(s, v) ==
    /\ Len(subscriberQueue) <= MaxQueue
    /\ Becomes(Called(call(Calling, "set", s, NoSubscriber, Str(<<v>>)),
                      [op |-> "set", changed |-> safeNotEqual(value[s], Str(<<v>>)),
                       on |-> s]))
    /\ UNCHANGED notRun

CallbackNext ==
    \/ \E k \in Callers : \E s \in Hears(k) : CallbackSubscribe(k, s)
    \/ \E k \in Callers : \E s \in Hears(k) : CallbackUnsubscribe(k, s)
    \/ \E s \in {"count", "text"}, v \in 1..Top : CallbackSet(s, v)

(***************************************************************************)
(*                      framework/binding/rebind.ts                        *)
(*                                                                         *)
(*   html`<div class="x ${v1} ${v2}">${v3}</div>`                          *)
(*                                                                         *)
(* The template has three interpolated values: the first two are in the    *)
(* attribute class, which has one DomLink for its two bindings; the third  *)
(* is the child text, with a DomLink of its own.  A value is a store of    *)
(* the caller, made with readable(), or a plain value, for which tmpl      *)
(* makes a writable store; the stores given at different positions are     *)
(* different stores.  Objects (Binding, DomLink, the stores tmpl makes)    *)
(* are numbers, given in the order the objects are made.                   *)
(***************************************************************************)
Positions == 1..3
\* domLink.tmpl.bindingIndices of the DomLink of a position
bindingIndices(p) == IF p \in {1, 2} THEN <<1, 2>> ELSE <<3>>

Plain(k) == [store |-> FALSE, id |-> k]
StoreAt(p, k) == [store |-> TRUE, id |-> 10 * p + k]
ValuesAt(p) == {Plain(k) : k \in 1..MaxVal} \cup {StoreAt(p, k) : k \in 1..MaxVal}
LiteralsValues == {<<v1, v2, v3>> : v1 \in ValuesAt(1), v2 \in ValuesAt(2), v3 \in ValuesAt(3)}

\* every value taken for a store
isAnything(v) == TRUE
\* isReadable(value)
isReadable(v) == v.store

\* writable(value) made by tmpl for a plain value: the store and what it holds
Made(object, v) == [given |-> FALSE, id |-> object, holds |-> v.id]
Given(v) == [given |-> TRUE, id |-> v.id, holds |-> 0]
isWritable(bindingStore) == ~bindingStore.given

\* createBindingMetadata for the DomLink of position p, with the objects
\* from first on: the DomLink, then for each key its store (when tmpl makes
\* one) and its Binding
RECURSIVE bindKeys(_, _, _, _, _)
bindKeys(bindings, vals, indices, domLink, object) ==
    IF indices = <<>>
    THEN [bindings |-> bindings, next |-> object]
    ELSE LET p == Head(indices)
             v == vals[p]
             stores == IF isReadable(v) THEN 0 ELSE 1
             binding == [id |-> object + stores,
                         store |-> IF isReadable(v) THEN Given(v) ELSE Made(object, v),
                         domLink |-> domLink]
         IN  bindKeys([bindings EXCEPT ![p] = binding], vals, Tail(indices), domLink,
                      object + stores + 1)

bindLink(bindings, vals, p, object) ==
    bindKeys(bindings, vals, bindingIndices(p), object, object + 1)

NoBinding == [id |-> 0, store |-> Given(Plain(0)), domLink |-> 0]

\* bindStates: the bindings of the attribute, then the binding of the child text
bindAll(vals, object) ==
    LET attr == bindLink([p \in Positions |-> NoBinding], vals, 1, object)
    IN  bindLink(attr.bindings, vals, 3, attr.next)

\* rebind, step 1: the simple values are set on their stores, the DomLinks
\* of the positions that got another store are collected
RECURSIVE collect(_, _, _, _, _)
collect(bindings, oldValues, newValues, i, impactedDomLinks) ==
    IF i > Len(newValues)
    THEN [bindings |-> bindings, impactedDomLinks |-> impactedDomLinks]
    ELSE IF newValues[i] = oldValues[i]
         THEN collect(bindings, oldValues, newValues, i + 1, impactedDomLinks)
         ELSE IF isReadable(newValues[i])
              THEN collect(bindings, oldValues, newValues, i + 1,
                           IF Has(impactedDomLinks, bindings[i].domLink)
                           THEN impactedDomLinks
                           ELSE Append(impactedDomLinks, bindings[i].domLink))
              ELSE IF isWritable(bindings[i].store)
                   THEN collect([bindings EXCEPT ![i].store.holds = newValues[i].id],
                                oldValues, newValues, i + 1, impactedDomLinks)
                   ELSE \* console.warn: the value is not updated
                        collect(bindings, oldValues, newValues, i + 1, impactedDomLinks)

\* a position of the DomLink
PositionOf(bindings, domLink) == CHOOSE p \in Positions : bindings[p].domLink = domLink

\* rebind, step 2: the impacted DomLinks are made again, their bindings
\* replaced in the old literals, and they are disposed
RECURSIVE recreate(_, _, _, _, _)
recreate(bindings, newValues, impactedDomLinks, object, disposedNow) ==
    IF impactedDomLinks = <<>>
    THEN [bindings |-> bindings, next |-> object, disposed |-> disposedNow]
    ELSE LET domLink == Head(impactedDomLinks)
             new == bindLink(bindings, newValues, PositionOf(bindings, domLink), object)
         IN  recreate(new.bindings, newValues, Tail(impactedDomLinks), new.next,
                      disposedNow \cup {domLink})

rebind(bindings, oldValues, newValues, object) ==
    LET step1 == collect(bindings, oldValues, newValues, 1, <<>>)
    IN  recreate(step1.bindings, newValues, step1.impactedDomLinks, object, {})

NoRebind == [values |-> <<>>, bindings |-> <<>>]

\* node(literals): the literals with the values, and its bindings
RebindInit(literalsValues) ==
    /\ litValues \in literalsValues
    /\ litBindings = bindAll(litValues, 1).bindings
    /\ disposedLinks = {}
    /\ nextObject = bindAll(litValues, 1).next
    /\ lastRebind = NoRebind

\* the update of node() in watch mode: rebind(literals, newLiterals), then
\* literals.values = newLiterals.values
Rebind(newValues) ==
    /\ nextObject <= MaxObjects
    /\ LET done == rebind(litBindings, litValues, newValues, nextObject)
       IN  /\ litBindings' = done.bindings
           /\ nextObject' = done.next
           /\ disposedLinks' = disposedLinks \cup done.disposed
    /\ litValues' = newValues
    /\ lastRebind' = [values |-> litValues, bindings |-> litBindings]
    /\ UNCHANGED notRebind

RebindNext == \E newValues \in LiteralsValues : Rebind(newValues)

(***************************************************************************)
(*                    template/tag.ts: createWatcher                       *)
(*                                                                         *)
(*   node((watch) => html`... ${watch(c1) ? watch(attrA) : watch(attrB)}`) *)
(*                                                                         *)
(* The render function watches c1 and, according to its value, attrA or    *)
(* attrB.  An evaluation is noted with the stores it watched, the values   *)
(* it read, whether it was the one of the initialization, and whether the  *)
(* watcher had been disposed.                                              *)
(***************************************************************************)
Watchable == {"c1", "attrA", "attrB"}

\* the subscriber buildWatcher adds to triggerUpdate
WatchSubscriber(t) == [kind |-> "watch", who |-> "watcher", i |-> 0, on |-> t]

\* derived([...watched], (_) => ({}))
TriggerOf(watched) == IF Has(watched, "attrA") THEN "tA" ELSE "tB"

\* watched.add(store)
add(watched, s) == IF Has(watched, s) THEN watched ELSE Append(watched, s)

\* the stores the render function gives to watch, in order
watchedBy(W) == <<"c1", IF IsTrue(W.value["c1"]) THEN "attrA" ELSE "attrB">>

\* onWatcherInit(watch) / onWatchedChange(watch): the render function runs
evaluate(W, initial) ==
    [W EXCEPT !.watcher.watched = add(add(@, watchedBy(W)[1]), watchedBy(W)[2]),
              !.watcher.lastWatched = watchedBy(W),
              !.renders = Append(@, [watched |-> watchedBy(W),
                                     seen |-> [i \in 1..2 |-> W.value[watchedBy(W)[i]]],
                                     initial |-> initial,
                                     late |-> W.watcher.disposed])]

\* buildWatcher without triggerUpdateUnsub?.()
keepTrigger(W) == W

\* triggerUpdateUnsub?.()
unsubscribeTrigger(W) ==
    IF W.watcher.trigger = ""
    THEN W
    ELSE call(W, "unsubscribe", W.watcher.trigger, WatchSubscriber(W.watcher.trigger),
              UndefinedValue)

\* buildWatcher, after the unsubscription: the new trigger and its subscriber
subscribeTrigger(W) ==
    call([W EXCEPT !.watcher.trigger = TriggerOf(W.watcher.watched),
                   !.watcher.watched = <<>>,
                   !.watcher.initialCall = TRUE],
         "subscribe", TriggerOf(W.watcher.watched),
         WatchSubscriber(TriggerOf(W.watcher.watched)), UndefinedValue)

buildWatcher(W) == subscribeTrigger(unsubscribeTrigger(W))

\* const debounce = debounceWatches ? createDebouncer() : undefined
alwaysDebouncer(w) == TRUE
noDebouncerEver(w) == FALSE
hasDebouncer(w) == w.debounceWatches

\* the subscriber of triggerUpdate
triggered(W) ==
    IF W.watcher.initialCall
    THEN [W EXCEPT !.watcher.initialCall = FALSE]
    ELSE IF hasDebouncer(W.watcher)
         THEN debounce(W, "watch", Fn("rerender"))
         ELSE call(W, "rerender", "", NoSubscriber, 0)

\* () => (onWatchedChange(watch), buildWatcher())
rerender(W) == buildWatcher(evaluate(W, FALSE))

WatchInit(options) ==
    /\ watcher \in [debounceWatches : options, built : {FALSE}, disposed : {FALSE},
                    watched : {<<>>}, lastWatched : {<<>>}, trigger : {""},
                    initialCall : {FALSE}]
    /\ renders = <<>>
    /\ watchedChanges = 0

\* node(fn, options): createWatcher
CreateWatcher ==
    /\ ~watcher.built
    /\ Becomes([buildWatcher(evaluate(BeginTurn(World), TRUE)) EXCEPT !.watcher.built = TRUE])
    /\ UNCHANGED notRun

\* s.set(v) on one of the stores the render function may watch
SetWatched(s, v) ==
    /\ Len(renders) < MaxRenders
    /\ watchedChanges < MaxRenders
    /\ LET W == call(BeginTurn(World), "set", s, NoSubscriber, v)
           counted == /\ watcher.built /\ ~watcher.disposed
                      /\ Has(watcher.lastWatched, s)
                      /\ value[s] # v
       IN  Becomes([W EXCEPT !.watchedChanges = IF counted THEN @ + 1 ELSE @])
    /\ UNCHANGED notRun

\* dispose(el): the function createWatcher returned
DisposeWatcher ==
    /\ watcher.built /\ ~watcher.disposed
    /\ Becomes([unsubscribeTrigger(BeginTurn(World)) EXCEPT !.watcher.watched = <<>>,
                                                            !.watcher.disposed = TRUE])
    /\ UNCHANGED notRun

WatchNext ==
    \/ CreateWatcher
    \/ \E v \in BOOLEAN : SetWatched("c1", Bool(v))
    \/ \E s \in {"attrA", "attrB"}, v \in 1..MaxVal : SetWatched(s, Str(<<v>>))
    \/ DisposeWatcher
    \/ Tick
(***************************************************************************)
(*                          Specifications                                 *)
(***************************************************************************)
RunInit(templateSites) ==
    /\ StoreInit
    /\ CallbackInit({[k \in Callers |-> "record"]})
    /\ TaskInit
    /\ WatchInit({TRUE})
    /\ BindInit(templateSites)
    /\ CondInit({[b \in BranchSet |-> "node"]})
    /\ LoopInit({[useDiffing |-> TRUE, getItemKey |-> "none", objects |-> FALSE]})

InitDiff ==
    /\ DiffInit
    /\ DispInit
    /\ RebindInit({<<Plain(1), Plain(1), Plain(1)>>})
    /\ RunInit({})

SpecDiff == InitDiff /\ [][DiffNext]_vars

InitDisposable ==
    /\ DiffIdle
    /\ DispInit
    /\ RebindInit({<<Plain(1), Plain(1), Plain(1)>>})
    /\ RunInit({})

SpecDisposable == InitDisposable /\ [][DispNext]_vars

\* node(fn) in watch mode and the cleanups of its literals
SpecWatched == InitDisposable /\ [][WatchedNext]_vars

SpecDebounce == InitDisposable /\ [][DebounceNext]_vars

\* functions that call the debouncer while they run
SpecNesting == InitDisposable /\ [][NestingNext]_vars

SpecStore == InitDisposable /\ [][StoreNext]_vars

InitAttr ==
    /\ DiffIdle
    /\ DispInit
    /\ RebindInit({<<Plain(1), Plain(1), Plain(1)>>})
    /\ RunInit({"class"})

SpecAttr == InitAttr /\ [][AttrNext]_vars

InitBind ==
    /\ DiffIdle
    /\ DispInit
    /\ RebindInit({<<Plain(1), Plain(1), Plain(1)>>})
    /\ RunInit({"title", "slot"})

SpecBind == InitBind /\ [][BindNext]_vars

\* the two parts of the child text, in either mode
InitSlots ==
    /\ DiffIdle
    /\ DispInit
    /\ RebindInit({<<Plain(1), Plain(1), Plain(1)>>})
    /\ StoreInit
    /\ CallbackInit({[k \in Callers |-> "record"]})
    /\ TaskInit
    /\ WatchInit({TRUE})
    /\ BindInitIn(Slots, {"BATCHED", "EAGER"})
    /\ CondInit({[b \in BranchSet |-> "node"]})
    /\ LoopInit({[useDiffing |-> TRUE, getItemKey |-> "none", objects |-> FALSE]})

SpecSlots == InitSlots /\ [][SlotNext]_vars

\* node(html`...`, { updateDomMode: 'eager' })
InitEager ==
    /\ DiffIdle
    /\ DispInit
    /\ RebindInit({<<Plain(1), Plain(1), Plain(1)>>})
    /\ StoreInit
    /\ CallbackInit({[k \in Callers |-> "record"]})
    /\ TaskInit
    /\ WatchInit({TRUE})
    /\ BindInitIn({"class", "title", "slot"}, {"EAGER"})
    /\ CondInit({[b \in BranchSet |-> "node"]})
    /\ LoopInit({[useDiffing |-> TRUE, getItemKey |-> "none", objects |-> FALSE]})

SpecEager == InitEager /\ [][EagerNext]_vars

InitCond ==
    /\ DiffIdle
    /\ DispInit
    /\ RebindInit({<<Plain(1), Plain(1), Plain(1)>>})
    /\ StoreInit
    /\ CallbackInit({[k \in Callers |-> "record"]})
    /\ TaskInit
    /\ WatchInit({TRUE})
    /\ BindInit({})
    /\ CondInit(Contents)
    /\ LoopInit({[useDiffing |-> TRUE, getItemKey |-> "none", objects |-> FALSE]})

SpecCond == InitCond /\ [][CondNext]_vars

InitLoop ==
    /\ DiffIdle
    /\ DispInit
    /\ RebindInit({<<Plain(1), Plain(1), Plain(1)>>})
    /\ StoreInit
    /\ CallbackInit({[k \in Callers |-> "record"]})
    /\ TaskInit
    /\ WatchInit({TRUE})
    /\ BindInit({})
    /\ CondInit({[b \in BranchSet |-> "node"]})
    /\ LoopInit([useDiffing : BOOLEAN, getItemKey : KeyFns, objects : BOOLEAN])

SpecLoop == InitLoop /\ [][LoopNext]_vars


InitRebind ==
    /\ DiffIdle
    /\ DispInit
    /\ RebindInit(LiteralsValues)
    /\ RunInit({})

SpecRebind == InitRebind /\ [][RebindNext]_vars

\* node(fn, { debounceWatches })
InitWatch ==
    /\ DiffIdle
    /\ DispInit
    /\ RebindInit({<<Plain(1), Plain(1), Plain(1)>>})
    /\ StoreInit
    /\ CallbackInit({[k \in Callers |-> "record"]})
    /\ TaskInit
    /\ WatchInit(BOOLEAN)
    /\ BindInit({})
    /\ CondInit({[b \in BranchSet |-> "node"]})
    /\ LoopInit({[useDiffing |-> TRUE, getItemKey |-> "none", objects |-> FALSE]})

SpecWatch == InitWatch /\ [][WatchNext]_vars

\* callbacks that unsubscribe, set or throw while they are notified
InitCallback ==
    /\ DiffIdle
    /\ DispInit
    /\ RebindInit({<<Plain(1), Plain(1), Plain(1)>>})
    /\ StoreInit
    /\ CallbackInit({b \in [Callers -> Behaviours] : b["k2"] \in {"record", "mirror"}})
    /\ TaskInit
    /\ WatchInit({TRUE})
    /\ BindInit({})
    /\ CondInit({[b \in BranchSet |-> "node"]})
    /\ LoopInit({[useDiffing |-> TRUE, getItemKey |-> "none", objects |-> FALSE]})

SpecCallback == InitCallback /\ [][CallbackNext]_vars

\* the list bound in the child text of a template, in either mode
InitList ==
    /\ DiffIdle
    /\ DispInit
    /\ RebindInit({<<Plain(1), Plain(1), Plain(1)>>})
    /\ StoreInit
    /\ CallbackInit({[k \in Callers |-> "record"]})
    /\ TaskInit
    /\ WatchInit({TRUE})
    /\ BindInitIn({}, {"BATCHED", "EAGER"})
    /\ CondInit({[b \in BranchSet |-> "node"]})
    /\ LoopInit({[useDiffing |-> TRUE, getItemKey |-> "total", objects |-> FALSE]})

SpecList == InitList /\ [][ListNext]_vars
\* C1: when diffArray returns without overkill, applying its ops in order to
\* the old array yields the keys of the new array, position by position.
C1_DiffCorrect ==
    (patched.done /\ ~diffResult.overkill) => KeysOf(patched.arr) = KeysOf(newArray)

\* a patch with a deletion, an addition and a move was applied
C1_Witness ==
    /\ patched.done
    /\ ~diffResult.overkill
    /\ \E i \in 1..Len(diffResult.ops) : diffResult.ops[i].type = "MOV"
    /\ \E i \in 1..Len(diffResult.ops) : diffResult.ops[i].type = "ADD"
    /\ KeysOf(patched.arr) = KeysOf(newArray)

DeliveredTo(sub) == SelectSeq(delivered, LAMBDA d : d.sub = sub)

\* C2: after one set of count that changes its value, every subscriber of a
\* store derived from several stores below count has been called exactly once,
\* with the value computed from the new value of count along every path.
C2_NoGlitch ==
    (lastOp.op = "set" /\ lastOp.changed)
    => \A u \in Users, s \in Observed :
         Has(subscribers[s], UserSubscriber(u, s))
         => /\ Len(DeliveredTo(UserSubscriber(u, s))) = 1
            /\ DeliveredTo(UserSubscriber(u, s))[1].val = Fresh(World, s)

\* C4: nothing passed to a debouncer runs before the end of the turn; after the
\* microtasks have run, of the functions passed to a debouncer in the turn the
\* last one has run once and the others have not run.
C4_LastOnly ==
    /\ ~drained => ran = <<>>
    /\ drained =>
         \A id \in 1..MaxFns :
            Times(ran, id) =
                IF \E d \in UserDebouncers : passed[d] # <<>> /\ Last(passed[d]) = id
                THEN 1 ELSE 0

\* three functions were passed to d1 in one turn and the microtasks have run
C4_Witness ==
    /\ drained
    /\ Len(passed["d1"]) >= 3
    /\ ran # <<>>

\* the writes the last run of the queue made for a binding site
WritesOf(site) == SelectSeq(lastRun.writes, LAMBDA w : w.site = site)

\* the value of the class attribute for the current values of its stores
AttrValueNow ==
    injectValuesInTemplate("class", fn("domLinkStore", <<value["attrA"], value["attrB"]>>))

\* C5: BATCHED, attribute bound to attrA and attrB: when the microtasks of a
\* turn have run, setAttribute was called once if the binding was notified
\* since the queue last ran (and not at all otherwise), with the value made of
\* the latest value of both stores.
C5_OneSetAttribute ==
    (drained /\ lastRun.by = "microtask" /\ created /\ ~disposed)
    => IF lastRun.notified.class > 0
       THEN /\ Len(WritesOf("class")) = 1
            /\ WritesOf("class")[1].val = AttrValueNow
            /\ domAttr.class = AttrValueNow
       ELSE WritesOf("class") = <<>>

\* both stores of the attribute were changed in one turn, and the turn ended
C5_Witness ==
    /\ drained /\ lastRun.by = "microtask" /\ created /\ ~disposed
    /\ lastRun.notified.class >= 2
    /\ Len(WritesOf("class")) = 1
    /\ value["attrA"] # Str(<<1>>) /\ value["attrB"] # Str(<<1>>)

\* C6: BATCHED, child-text slot: when the microtasks of a turn have run, at
\* most one DOM update of the slot was performed, however many times the store
\* was set in the turn.
C6_SlotOnce ==
    (drained /\ lastRun.by = "microtask" /\ created /\ ~disposed)
    => Len(WritesOf("slot")) <= 1

C8_NoStaleWrite ==
    \A i \in 1..Len(lastRun.writes) :
        lastRun.writes[i].site \in sites => ~lastRun.writes[i].stale

\* C9: after dispose(node) the bindings are subscribed to no store, and no DOM
\* write is made for a change of a store that happened after dispose(node).
C9_NoLateWrite ==
    /\ disposed => \A s \in Stores, site \in sites : ~Has(subscribers[s], SiteSubscriber(site))
    /\ \A i \in 1..Len(lastRun.writes) : ~lastRun.writes[i].late
    /\ \A i \in 1..Len(domOperations) : ~domOperations[i].late

\* a bound store was changed after dispose(node) and the queue has run since
C9_Witness ==
    /\ disposed
    /\ lastRun.lateChanges
    /\ lastRun.by = "microtask"

\* the branches built so far whose condition is true now, else excluded
TrueBranches ==
    {i \in 1..Len(built) : built[i] # "else" /\ IsTrue(value[ConditionOf(built[i])])}

\* the first of them in the order of declaration
FirstTrue == built[CHOOSE i \in TrueBranches : \A j \in TrueBranches : i <= j]

\* C10: the value of the conditional's store is the content of the first
\* declared branch whose condition is true now, or the content of else when
\* no condition is true and else was declared.
C10_FirstTrueWins ==
    built # <<>> =>
        IF TrueBranches # {}
        THEN /\ value["nodeStore"] = ContentNode(World, FirstTrue)
             /\ branchState[FirstTrue].active
        ELSE Has(built, "else") => value["nodeStore"] = ContentNode(World, "else")

\* the whole chain is built; c1 has just been set to false while c2 and c3
\* are true, and the first elseif shows the second node its function made
C10_Witness ==
    /\ built = Branches
    /\ lastOp = [op |-> "set", changed |-> TRUE]
    /\ ~IsTrue(value["c1"]) /\ IsTrue(value["c2"]) /\ IsTrue(value["c3"])
    /\ contentKind["elseif1"] = "fn"
    /\ value["nodeStore"] = Element(2, 2)

\* C11: when every declared condition is false and no else was declared,
\* the value of the conditional's store is the placeholder text node.
C11_EmptyIsAnchor ==
    (built # <<>> /\ TrueBranches = {} /\ ~Has(built, "else"))
        => value["nodeStore"] = Anchor

\* C12: the content of a branch that is deactivated (the node the branch
\* last put in the store of the conditional) is disposed exactly when it was
\* given as a function, as a template description or as a store that holds
\* a template description; a node given by the caller is never disposed.
C12_DisposedIffRegenerated ==
    /\ \A k \in 1..Len(deactivated) :
          deactivated[k].disposed <=>
              \/ deactivated[k].kind \in {"fn", "literal"}
              \/ deactivated[k].kind = "store" /\ deactivated[k].holds = "literal"
    /\ \A b \in BranchSet :
          contentKind[b] = "node" => Element(BranchIndex(b), 0) \notin disposedNodes

\* what diffArray gives for the last emission, when it returns
LastDiff ==
    diffArray(Tagged(lastApply.prevArr.arr, "old"), Tagged(lastApply.newArr, "new"), FALSE)

\* diffing is disabled, there is no key function for the items, or the diff
\* is flagged overkill (diffArray of an undefined array is)
MustRebuild ==
    \/ ~loopOptions.useDiffing
    \/ loopOptions.getItemKey = "none" /\ ~loopOptions.objects
    \/ ~lastApply.prevArr.defined
    \/ LastDiff.overkill

NodesNow == IF value["nodesStore"].kind = "array" THEN value["nodesStore"].v ELSE <<>>
NodesBefore == IF lastApply.before.kind = "array" THEN lastApply.before.v ELSE <<>>

\* C13: on an emission the list either disposes every previous node and sets
\* the store to newly built nodes (diffing disabled, no key function, or
\* overkill), or else changes the array of the store in place with the ops
\* of the diff and sets nothing.
C13_RebuildOrPatch ==
    lastApply.path # "none" =>
        IF MustRebuild
        THEN /\ lastApply.path = "rebuild"
             /\ lastApply.disposed = NodesBefore
             /\ lastApply.sets = 1
             /\ Len(NodesNow) = Len(lastApply.newArr)
             /\ \A i \in 1..Len(NodesNow) : ~Has(NodesBefore, NodesNow[i])
        ELSE /\ lastApply.path = "patch"
             /\ lastApply.sets = 0
             /\ [i \in 1..Len(NodesNow) |-> ItemOf(NodesNow[i])]
                   = KeysOf(applyOps(Tagged(lastApply.prevArr.arr, "old"), LastDiff.ops))

\* C14: when the last emission has been processed the store holds the
\* placeholder text node if the collection is empty and otherwise an array
\* with one node per item; it never holds an empty array.
C14_AnchorOrNodes ==
    /\ value["nodesStore"] # Array(<<>>)
    /\ (eachCalled /\ previousArray = [defined |-> TRUE, arr |-> value["collection"].v]) =>
          IF value["collection"].v = <<>>
          THEN value["nodesStore"] = Anchor
          ELSE /\ value["nodesStore"].kind = "array"
               /\ Len(value["nodesStore"].v) = Len(value["collection"].v)

\* an emission of three items after one of two has been processed by the
\* diff path, in place
C14_Witness ==
    /\ lastApply.path = "patch"
    /\ lastApply.sets = 0
    /\ Len(lastApply.prevArr.arr) = 2
    /\ Len(value["collection"].v) = 3
    /\ Len(NodesNow) = 3

\* C15: every result diffArray returns without overkill has strictly fewer
\* ops than the new array has items (overkill is flagged whenever the
\* deletions, additions and moves are as many as the items of the new array).
C15_FewerOpsThanItems ==
    (diffResult.returned /\ ~diffResult.overkill) => Len(diffResult.ops) < Len(newArray)

\* C16: every call of diffArray ends, by a return or by the exception of the
\* key function, after at most as many iterations of the move loop as the
\* new array has items.
C16_BoundedIterations ==
    diffResult # NotCalled => diffResult.iterations <= Len(newArray)

\* a call that returned after as many iterations as the new array has items
C16_Witness ==
    /\ diffResult.returned
    /\ Len(newArray) >= 3
    /\ diffResult.iterations = Len(newArray)

\* C17: dispose(obj) on a disposable object runs every cleanup attached to
\* it, the first-attached one first and the others in the order they were
\* attached, each exactly once: chaining a cleanup discards none.
C17_AllAttachedInOrder ==
    (lastCall.op = "dispose" /\ lastCall.wasDisposable) => lastCall.ran = attached

\* C18: shallowDispose(obj) on a disposable object runs the cleanups attached
\* after the first one, in the order they were attached, and not the first;
\* the object stays disposable and dispose(obj) would still run the first.
C18_ShallowOnly ==
    (lastCall.op = "shallowDispose" /\ lastCall.wasDisposable)
    => /\ lastCall.ran = Tail(attached)
       /\ isDisposable
       /\ DisposeRuns # <<>> /\ DisposeRuns[1] = attached[1]

\* C19: store.subscribe(run) calls run exactly once before it returns, with
\* the value the store has then; when the subscription starts the store and
\* start sets its value, that is the value start computed.  No other
\* subscriber is called.
C19_RunOnceOnSubscribe ==
    lastOp.op = "subscribe"
    => /\ Len(delivered) = 1
       /\ delivered[1].sub.kind = "user"
       /\ Has(subscribers[delivered[1].sub.on], delivered[1].sub)
       /\ delivered[1].val = value[delivered[1].sub.on]
       /\ delivered[1].val = Fresh(World, delivered[1].sub.on)

\* the subscription started a store derived from two stores, after count
\* was set
C19_Witness ==
    /\ lastOp.op = "subscribe"
    /\ Len(delivered) = 1
    /\ delivered[1].sub.on = "combined"
    /\ Len(subscribers["combined"]) = 1
    /\ value["count"] # Str(<<1>>)
    /\ delivered[1].val = Str(<<97>> \o value["count"].v \o <<98>> \o value["count"].v)

\* C20: a second or later call of an unsubscriber does not throw, does not
\* call the stop notifier, calls no subscriber and leaves every store, its
\* subscribers included, as it was.
C20_UnsubscribeAgainIsNoop ==
    lastOp.op = "unsubscribeAgain" => ~lastOp.changed

\* the unsubscriber was called again after the same caller had subscribed
\* again to the store, which another caller also observes
C20_Witness ==
    /\ lastOp.op = "unsubscribeAgain"
    /\ Has(subscribers[unsubscribed[2]], UserSubscriber(unsubscribed[1], unsubscribed[2]))
    /\ Len(subscribers[unsubscribed[2]]) = 2

\* C21: the start notifier of a store and the stop function it returned are
\* called in turn, start first: start has run and stop has not exactly when
\* the store has a subscriber, so start runs when the subscribers go from
\* none to one and stop when they go from one to none.
C21_StartStopAlternate ==
    \A s \in Stores :
        /\ notifier[s] # "twice"
        /\ notifier[s] = "started" <=> subscribers[s] # <<>>

\* the last subscriber of combined left and its stop ran, while a, which
\* another derived store still uses, was not stopped
C21_Witness ==
    /\ lastOp.op = "unsubscribe"
    /\ unsubscribed[2] = "combined"
    /\ notifier["combined"] = "idle"
    /\ notifier["b"] = "idle"
    /\ notifier["a"] = "started"
    /\ Len(subscribers["a"]) = 1

Range(seq) == {seq[i] : i \in 1..Len(seq)}

\* C30: when the list has processed an emission, by the ops of the diff or
\* by a full rebuild, the nodes it disposed are the nodes that were in the
\* store before and are no longer in it, each disposed once; the nodes that
\* stayed, moved or not, were not disposed.
C30_RemovedDisposedOnce ==
    lastApply.path \in {"patch", "rebuild"}
    => /\ \A i, j \in 1..Len(lastApply.disposed) :
             i # j => lastApply.disposed[i] # lastApply.disposed[j]
       /\ Range(lastApply.disposed) = Range(NodesBefore) \ Range(NodesNow)

\* a patch deleted the node of one item and kept the nodes of two others
C30_Witness ==
    /\ lastApply.path = "patch"
    /\ Len(lastApply.disposed) = 1
    /\ Len(NodesBefore) = 3
    /\ Len(NodesNow) = 2
    /\ Range(NodesNow) \subseteq Range(NodesBefore)


(***************************************************************************)
(*              The parts of the child text and the two modes              *)
(***************************************************************************)
\* the DOM writes the binding of a site has made since the record began
WritesIn(record, site) == SelectSeq(record.writes, LAMBDA w : w.site = site)

\* a DOM operation of the binding of the site is queued
Pending(site) == \E i \in 1..Len(domOperations) : domOperations[i].site = site

\* C22: with text and text2 in the same child text, a step in which text2
\* does not change (a change of text, a run of the queue that holds no
\* operation of the binding of text2) leaves the text node that renders
\* text2 the target of its binding, with the same content, and the last
\* child of the element
C22_OtherPartUntouched ==
    [][(/\ created
        /\ target["slot2"].text # NoNode
        /\ Last(domSlot) = target["slot2"].text
        /\ ~Pending("slot2")
        /\ value'["text2"] = value["text2"])
       => /\ target'["slot2"] = target["slot2"]
          /\ texts'[target["slot2"].text] = texts[target["slot2"].text]
          /\ Last(domSlot') = target["slot2"].text]_vars

\* text went from an array of two elements to one element, in DOM writes of
\* its own binding only, and the node of text2 is where it was
C22_Witness ==
    /\ created /\ ~disposed
    /\ lastRun.by = "microtask"
    /\ Len(WritesIn(lastRun, "slot")) = 2
    /\ WritesIn(lastRun, "slot2") = <<>>
    /\ target["slot"].el # NoNode
    /\ domSlot = <<target["slot"].el, 3, target["slot2"].text>>
    /\ texts[target["slot2"].text] = value["text2"].v

\* C25: a call of updateDomTarget whose value is the very reference of the
\* occupant of the slot (an element, a Text node or an array of nodes)
\* queues no DOM operation and runs none
C25_SameReferenceNoWrite ==
    \A slot \in Slots :
        lastUpdate[slot].same
        => lastUpdate[slot].queued = 0 /\ lastUpdate[slot].writes = 0

\* what the DOM shows for a site is the value of its store
DomShows(site) ==
    CASE site \in AttrSites ->
           domAttr[site] = injectValuesInTemplate(site, value[SiteStore(site)])
      [] value[SiteStore(site)].kind = "element" ->
           Has(domSlot, value[SiteStore(site)].v[1]) /\ target[site].text = NoNode
      [] OTHER ->
           /\ target[site].text # NoNode
           /\ Has(domSlot, target[site].text)
           /\ texts[target[site].text] = value[SiteStore(site)].v

\* C26: in EAGER mode, a call of set that changes a store of a bound node
\* leaves no DOM operation queued; when it returns the binding of every site
\* made exactly one DOM write if the store of the site changed and none if
\* it did not, and the DOM shows the values of the stores
C26_EagerWritesInSet ==
    [][(/\ updateDomMode = "EAGER"
        /\ created /\ ~disposed
        /\ \E s \in {"attrA", "attrB", "text"} : value'[s] # value[s])
       => /\ domOperations' = <<>>
          /\ microtasks' = microtasks
          /\ lastRun'.by = "set"
          /\ \A site \in sites :
                /\ Len(WritesIn(lastRun', site))
                      = IF value'[SiteStore(site)] # value[SiteStore(site)] THEN 1 ELSE 0
                /\ DomShows(site)']_vars

\* two changes of text, the second from a string to an element, have each
\* made their write of the title and of the child text
C26_Witness ==
    /\ updateDomMode = "EAGER"
    /\ created /\ ~disposed
    /\ lastRun.by = "set"
    /\ Len(texts) > 3
    /\ value["text"].kind = "element"
    /\ Len(WritesIn(lastRun, "slot")) = 1
    /\ Len(WritesIn(lastRun, "title")) = 1
    /\ domSlot = value["text"].v

(***************************************************************************)
(*                                rebind                                   *)
(***************************************************************************)
\* the position got a value that is a store and is not the value it had
OtherStore(p) == litValues[p].store /\ litValues[p] # lastRebind.values[p]
\* the Binding object and the DomLink of the position are the ones it had
SameBinding(p) ==
    /\ litBindings[p].id = lastRebind.bindings[p].id
    /\ litBindings[p].domLink = lastRebind.bindings[p].domLink
\* the DomLink of the position was made by the last rebind
NewDomLink(p) ==
    /\ \A q \in Positions : litBindings[p].domLink # lastRebind.bindings[q].domLink
    /\ litBindings[p].domLink \notin disposedLinks

Reevaluations == SelectSeq(renders, LAMBDA r : ~r.initial)
\* the evaluation read the values the stores it watched have now
ReadLatest(r) == \A i \in 1..2 : r.seen[i] = value[r.watched[i]]

\* C24: with debounceWatches false, when a call of set has returned the
\* render function has been evaluated again once for every change of a
\* watched store made so far in the turn, nothing is left to a microtask, and
\* the last evaluation read the values the stores have now
C24_SyncReevaluation ==
    watcher.built /\ ~watcher.debounceWatches
    => /\ Len(Reevaluations) = watchedChanges
       /\ microtasks = <<>>
       /\ ~watcher.disposed /\ renders # <<>> => ReadLatest(Last(renders))

C24_Witness ==
    /\ watcher.built /\ ~watcher.debounceWatches /\ ~watcher.disposed
    /\ ~drained
    /\ watchedChanges = 3
    /\ Len(Reevaluations) = 3

\* C27: with the default debounceWatches, no evaluation is made before the
\* microtasks of the turn have run; once they have run there was exactly one
\* if a watched store changed during the turn and none otherwise, and that
\* one read the values the stores have now
C27_OneReevaluationPerTurn ==
    watcher.built /\ watcher.debounceWatches /\ ~watcher.disposed
    => /\ ~drained => Reevaluations = <<>>
       /\ drained => Len(Reevaluations) = IF watchedChanges > 0 THEN 1 ELSE 0
       /\ drained /\ watchedChanges > 0 => ReadLatest(Last(renders))

C27_Witness ==
    /\ watcher.built /\ watcher.debounceWatches /\ ~watcher.disposed
    /\ drained
    /\ watchedChanges = 3
    /\ Len(Reevaluations) = 1
    /\ Last(renders).watched = <<"c1", "attrA">>
    /\ value["attrA"] = Str(<<2>>)

\* the watcher's trigger is subscribed to the store
Watching(s) ==
    \E i \in 1..Len(subscribers[s]) :
        subscribers[s][i].kind = "dep" /\ subscribers[s][i].who \in {"tA", "tB"}
\* a re-evaluation was made or is scheduled
Triggered(before, after, wasDrained) ==
    \/ Len(SelectSeq(after.renders, LAMBDA r : ~r.initial))
          > (IF wasDrained THEN 0 ELSE Len(SelectSeq(before.renders, LAMBDA r : ~r.initial)))
    \/ after.debouncers["watch"].scheduled /\ Len(after.microtasks) > 0

\* C28: as long as the watcher is not disposed, the stores its trigger is
\* subscribed to are exactly the stores the last evaluation watched; a
\* change of a store that is not among them makes and schedules no
\* evaluation, and a change of one of them does
C28_WatchesLastEvaluation ==
    [][/\ watcher'.built /\ ~watcher'.disposed
          => \A s \in Watchable : Watching(s)' <=> Has(watcher'.lastWatched, s)
       /\ \A s \in Watchable :
             watcher.built /\ ~watcher.disposed /\ ~watcher'.disposed /\ value'[s] # value[s]
             => IF Has(watcher.lastWatched, s)
                THEN Triggered([renders |-> renders], 
                               [renders |-> renders', debouncers |-> debouncers',
                                microtasks |-> microtasks'], drained)
                ELSE /\ Len(renders') = IF drained THEN 0 ELSE Len(renders)
                     /\ debouncers'["watch"] = debouncers["watch"]]_vars

\* c1 became true: the last evaluation watched attrA instead of attrB, and
\* the trigger is subscribed to attrA and no longer to attrB
C28_Witness ==
    /\ watcher.built /\ ~watcher.disposed
    /\ Reevaluations # <<>>
    /\ watcher.lastWatched = <<"c1", "attrA">>
    /\ Watching("attrA") /\ ~Watching("attrB")
    /\ value["attrB"] # Str(<<1>>)

\* C29: no evaluation of the render function is made after the watcher was
\* disposed
C29_NoRenderAfterDispose ==
    \A i \in 1..Len(renders) : ~renders[i].late

(***************************************************************************)
(*          Subscribers that act while they are notified                   *)
(***************************************************************************)
Subscribed(k, s) == Has(subscribers[s], CallbackSubscriber(k, s))

\* C31: once the unsubscriber of a subscription has returned, its callback is
\* not called again, even when a notification for it was already in the
\* subscriber queue of a set in progress: no call made by the caller calls a
\* callback that is no longer among the subscribers of its store.
C31_NoCallAfterUnsubscribe == lateCalls = {}

\* C32: when a set made by the caller returns, the subscriber queue is empty
\* and every callback still subscribed has last received the value its store
\* has now, whatever the callbacks set while they were notified.
C32_SettledWhenSetReturns ==
    (lastOp.op = "set" /\ ~threw) =>
        /\ subscriberQueue = <<>>
        /\ \A k \in Callers : \A s \in Hears(k) :
               Subscribed(k, s) => received[k][s] = value[s]

\* C37: a set that changes a store and returns has given the new value to
\* the callbacks subscribed to the stores made from it, whether or not a
\* callback threw during an earlier notification.
C37_LaterSetsNotify ==
    (lastOp.op = "set" /\ lastOp.changed /\ ~threw) =>
        \A k \in Callers : \A s \in Hears(k) :
            (Source(s) = lastOp.on /\ Subscribed(k, s)) => Digit(received[k][s]) = Digit(value[lastOp.on])

(***************************************************************************)
(*                 The child text once the queue has drained               *)
(***************************************************************************)
\* the microtasks of the turn have run and nothing is queued
Drained == drained /\ lastRun.by = "microtask" /\ domOperations = <<>> /\ microtasks = <<>>

\* C33: in BATCHED mode, once the queue of DOM operations has drained, the
\* child text of a bound node that is not disposed shows the value of its
\* store and no operation of the run has thrown, whatever the values given
\* to the store during the turn (strings and an element).
C33_DrainedShowsValue ==
    (created /\ ~disposed /\ updateDomMode = "BATCHED" /\ Drained) =>
        ~lastRun.threw /\ DomShows("slot")

\* C34: a run of the queue of DOM operations, by flush() or by the microtask
\* queueDomOperation scheduled, executes every operation that was queued
\* when it began, once and in the order they were queued.
C34_AllExecutedInOrder ==
    lastRun.by \in {"flush", "microtask"} => lastRun.executed = lastRun.pendingAtCall

\* C35: a function passed to a debouncer and not replaced by a later call
\* to the same debouncer is executed, also when it was passed by the
\* debounced function while that function was running: once the microtasks
\* of the turn have run, the function each debouncer was given last has run.
C35_PassedLastHasRun ==
    (drained /\ microtasks = <<>>) =>
        \A d \in UserDebouncers : passed[d] # <<>> => Has(ran, Last(passed[d]))

(***************************************************************************)
(*                  The list bound in a template                           *)
(***************************************************************************)
ListBound == Has(subscribers["nodesStore"], ListSubscriber)
\* the last emission was processed by the ops of the diff
Patched == lastOp.op = "set" /\ ~lastOp.changed /\ lastApply.path = "patch"
\* the store holds one node per item of the collection, in the same order
NodesFollow(items) ==
    /\ value["nodesStore"].kind = "array"
    /\ Len(value["nodesStore"].v) = Len(items)
    /\ \A i \in 1..Len(items) : ItemOf(value["nodesStore"].v[i]) = items[i]

\* C36 (the store): after an emission processed by the ops of the diff, the
\* i-th node of the array in the store is a node built for the i-th item of
\* the new collection.
C36_StoreFollows == (ListBound /\ Patched) => NodesFollow(lastApply.newArr)

\* C36: after an emission processed by the ops of the diff, the i-th node of
\* the array in the store is a node built for the i-th item of the new
\* collection, and once the DOM operations have drained the children of the
\* element are the nodes of the store, in the same order.
C36_PatchedLikeRebuilt ==
    (ListBound /\ Patched) =>
        /\ NodesFollow(lastApply.newArr)
        /\ Drained => domSlot = value["nodesStore"].v

\* the occupant of a slot is the DOM form of the value: the element, the Text
\* node or the array itself, a text node for a primitive
Represents(t, v) ==
    CASE v.kind = "element" -> t.el = v.v[1]
      [] v.kind = "text" -> t.text = v.v[1]
      [] v.kind = "array" -> t.array = v.v
      [] OTHER -> t.text # NoNode

\* C38 (the occupant): whatever the slot held, after updateDomTarget its
\* occupant is the DOM form of the value of the store
C38_OccupantFollows ==
    (created /\ ~disposed) => Represents(target["slot"], value["text"])

\* C38: updateDomTarget never discards a value: also when the slot held a
\* non-empty array of nodes and the value is an element or a primitive, the
\* occupant of the slot is the DOM form of the value, and once the DOM
\* operations have drained the DOM shows it
C38_NeverDiscards ==
    (created /\ ~disposed) =>
        /\ Represents(target["slot"], value["text"])
        /\ (Drained /\ ~lastRun.threw /\ value["text"].kind \in {"element", "string"})
              => DomShows("slot")

\* C39: a dispose(obj) runs no cleanup that a completed dispose(obj) has run
\* before, and it runs every cleanup attached since that dispose, also when
\* obj was made disposable again and further cleanups were chained onto it.
C39_NoStaleCleanup ==
    (lastCall.op = "dispose" /\ lastCall.wasDisposable)
    => /\ \A i \in 1..Len(lastCall.ran) : Has(attached, lastCall.ran[i])
       /\ \A i \in 1..Len(attached) : Times(lastCall.ran, attached[i]) = 1

\* C39 (one cleanup at a time): when no cleanup is chained onto a disposable
\* object, each dispose runs the one cleanup attached since the last dispose
C39_UnchainedHolds == objDispose.composite \/ C39_NoStaleCleanup

\* the node of node(fn) has been disposed
NodeDisposed == lastCall.op = "disposeNode"

\* C40 (first with a cleanup): when the literals of the first evaluation
\* carried a user cleanup, disposing the node runs the user cleanup of the
\* most recent evaluation exactly once
C40_WhenFirstCarried ==
    (NodeDisposed /\ evaluations[1] # 0 /\ Last(evaluations) # 0)
    => Times(invoked, Last(evaluations)) = 1

\* C40: when a node in watch mode is disposed, the user cleanup of the
\* literals returned by the most recent evaluation has run exactly once,
\* whether or not the literals of the first evaluation carried a user cleanup
C40_LatestCleanupOnce ==
    (NodeDisposed /\ Last(evaluations) # 0) => Times(invoked, Last(evaluations)) = 1
=============================================================================
